---- MODULE Spec2Model ----
(***************************************************************************)
(* Model of the genome transfer engine of scripts/ncbi/download_genomes.py *)
(* (download_genome_files) over the object store of                        *)
(* kbase_transfers/minio_client.py.                                        *)
(*                                                                         *)
(* Names (file names, object keys) are sequences of tokens in which "."    *)
(* and "/" are tokens of their own, so that endswith, startswith (key      *)
(* prefix), split('.') and lstrip('./') are computed on the tokens.  All   *)
(* keys of one assembly share the prefix s3_path, which is left out.       *)
(* File contents are the numbers 0..MaxContent; the MD5 digest of a        *)
(* content is its square modulo DigestMod, so distinct contents can        *)
(* collide on one digest.                                                  *)
(* One run of main processes the one assembly of the model; a further run  *)
(* is a further execution of the script against the same archive and the   *)
(* bucket as the earlier runs left it.                                     *)
(***************************************************************************)
EXTENDS Integers, Sequences, FiniteSets, TLC

\* ---------------------------------------------------------------- bounds
MaxContent == 2
DigestMod == 2
MaxRuns == 2
MaxFiles == 2
MaxItems == 2
MaxRecords == 1
MaxDepth == 1
MaxNodes == 2
MaxWidth == 2
MaxLines == 3

\* ------------------------------------------------------------- constants
MaxAttempts == 3
None == -1

Contents == 0..MaxContent
Digests == 0..(DigestMod - 1)

\* hashlib.md5 of a staged file
compute_md5(c) == (c * c) % DigestMod

\* local_file.stat().st_size of a staged file
st_size(c) == c + 1

\* ----------------------------------------------------------------- names
accession_full == "GCA_000195005.1"
assembly_dir == <<"GCA_000195005", ".", "1", "_ASM19500v1">>

file_filters == {
    <<"_gene_ontology", ".", "gaf", ".", "gz">>,
    <<"_genomic", ".", "fna", ".", "gz">>,
    <<"_genomic", ".", "gff", ".", "gz">>,
    <<"_protein", ".", "faa", ".", "gz">>,
    <<"_ani_contam_ranges", ".", "tsv">>,
    <<"_assembly_regions", ".", "txt">>,
    <<"_assembly_report", ".", "txt">>,
    <<"_assembly_stats", ".", "txt">>,
    <<"_gene_expression_counts", ".", "txt", ".", "gz">>,
    <<"_normalized_gene_expression_counts", ".", "txt", ".", "gz">> }

md5_name == <<"md5checksums", ".", "txt">>
datapackage_name == <<"datapackage", ".", "json">>
fna_name == assembly_dir \o <<"_genomic", ".", "fna", ".", "gz">>
gff_name == assembly_dir \o <<"_genomic", ".", "gff", ".", "gz">>
readme_name == <<"README", ".", "txt">>
\* an object of the bucket whose key merely starts with the key of fna_name
bak_name == fna_name \o <<".", "bak">>

TargetUniverse == {fna_name, gff_name}
AllKeys == TargetUniverse \cup {bak_name, md5_name, datapackage_name}

\* str.endswith
EndsWith(name, suffix) ==
    /\ Len(suffix) <= Len(name)
    /\ SubSeq(name, Len(name) - Len(suffix) + 1, Len(name)) = suffix

\* str.startswith, the Prefix= filter of list_objects_v2
StartsWith(name, prefix) ==
    /\ Len(prefix) <= Len(name)
    /\ SubSeq(name, 1, Len(prefix)) = prefix

\* filename.split('.')[-1] if '.' in filename else "unknown"
RECURSIVE LastDot(_, _)
LastDot(name, i) ==
    IF i = 0 THEN 0 ELSE IF name[i] = "." THEN i ELSE LastDot(name, i - 1)

FormatOf(name) ==
    IF LastDot(name, Len(name)) = 0 THEN <<"unknown">>
    ELSE SubSeq(name, LastDot(name, Len(name)) + 1, Len(name))

\* str.lstrip('./')
RECURSIVE LStrip(_)
LStrip(path) ==
    IF path # <<>> /\ Head(path) \in {".", "/"} THEN LStrip(Tail(path)) ELSE path

\* a dict as a function on its keys
EmptyDict == [k \in {} |-> None]
DictGet(d, k) == IF k \in DOMAIN d THEN d[k] ELSE None
DictPut(d, k, v) == [x \in (DOMAIN d) \cup {k} |-> IF x = k THEN v ELSE d[x]]

\* parse_md5checksums: content is the sequence of lines, a line the sequence
\* of its whitespace-delimited tokens (digest, path)
RECURSIVE parse_md5checksums(_)
parse_md5checksums(content) ==
    IF content = <<>> THEN EmptyDict
    ELSE LET n == Len(content)
             checksums == parse_md5checksums(SubSeq(content, 1, n - 1))
             parts == content[n]
         IN  IF Len(parts) >= 2
             THEN DictPut(checksums, LStrip(parts[2]), parts[1])
             ELSE checksums

\* target_files = [f for f in files if any(f.endswith(suffix) ...)]
IsTarget(f) == \E suffix \in file_filters : EndsWith(f, suffix)

\* variant: every target file is taken twice
TargetFiles_Twice(listing) ==
    SelectSeq(listing, IsTarget) \o SelectSeq(listing, IsTarget)

\* the list comprehension over the NLST answer: the target files in the
\* order of the listing
TargetFiles(listing) == SelectSeq(listing, IsTarget)

\* MinioClient.list_objects(bucket, prefix)
list_objects(s, prefix) == {k \in DOMAIN s : StartsWith(k, prefix)}

\* MinioClient.upload_file
upload_file(s, key, body) == DictPut(s, key, body)

\* variant: the first of the files is left out of the manifest
create_frictionless_descriptor_DropsFirst(dir, acc, downloaded_files) ==
    [profile |-> "tabular-data-package",
     title |-> <<"NCBI Genome Assembly">> \o dir,
     homepage |-> acc,
     resources |-> IF downloaded_files = <<>> THEN <<>>
                   ELSE Tail(downloaded_files)]

\* create_frictionless_descriptor
create_frictionless_descriptor(dir, acc, downloaded_files) ==
    [profile |-> "tabular-data-package",
     title |-> <<"NCBI Genome Assembly">> \o dir,
     homepage |-> acc,
     resources |-> downloaded_files]

Resource(filename, body, hash) ==
    [name |-> filename, path |-> filename, format |-> FormatOf(filename),
     bytes |-> st_size(body), hash |-> hash]

\* ---------------------------------------------------- branches of the engine
\* file_exists = bool(existing_objects)
FileExists(existing_objects) == existing_objects # {}

\* variant: an existing file without checksum is fetched again
ExistingBranch_RefetchUnverifiable(file_exists, expected_checksum) ==
    IF file_exists /\ expected_checksum # None THEN "verify" ELSE "fetch"

\* variant: an existing file with a checksum is fetched without verification
ExistingBranch_NeverVerify(file_exists, expected_checksum) ==
    IF file_exists /\ expected_checksum = None THEN "skip" ELSE "fetch"

\* the branch taken after the existence check of one target file
ExistingBranch(file_exists, expected_checksum) ==
    IF file_exists /\ expected_checksum # None THEN "verify"
    ELSE IF file_exists THEN "skip"
    ELSE "fetch"

\* variant: the stored object is fetched again whatever its digest
VerifyBranch_AlwaysRefetch(actual_checksum, expected_checksum) == "refetch"

\* variant: the stored object is kept whatever its digest
VerifyBranch_AlwaysSkip(actual_checksum, expected_checksum) == "skip"

\* the branch taken after the stored object was downloaded and digested
VerifyBranch(actual_checksum, expected_checksum) ==
    IF actual_checksum = expected_checksum THEN "skip" ELSE "refetch"

\* variant: the last attempt falls through to the upload on a mismatch
AttemptBranch_UploadOnLastMismatch(expected_checksum, actual_checksum, att) ==
    IF expected_checksum # None /\ actual_checksum # expected_checksum
          /\ att < MaxAttempts
    THEN "retry" ELSE "upload"

\* variant: the digest of the fetched file is not compared
AttemptBranch_NoDigestCheck(expected_checksum, actual_checksum, att) == "upload"

\* variant: a fourth attempt is made after three mismatches
AttemptBranch_FourAttempts(expected_checksum, actual_checksum, att) ==
    IF expected_checksum # None
    THEN IF actual_checksum # expected_checksum
         THEN IF att < MaxAttempts + 1 THEN "retry" ELSE "fail"
         ELSE "upload"
    ELSE "upload"

\* the branch taken after one fetch of the attempt loop
AttemptBranch(expected_checksum, actual_checksum, att) ==
    IF expected_checksum # None
    THEN IF actual_checksum # expected_checksum
         THEN IF att < MaxAttempts THEN "retry" ELSE "fail"
         ELSE "upload"
    ELSE "upload"

\* ------------------------------------------------------------------ state
VARIABLES
    ftp_files,            \* the archive: NLST of the assembly directory
    ftp_md5_content,      \* the archive: lines of md5checksums.txt
    store,                \* the bucket: key -> body of the objects present
    failed_transfers,     \* main's list of failed file transfers
    no_checksum_files,    \* main's list of files without checksum
    run,                  \* runs of main started, one invocation each
    result,               \* how the last invocation ended
    pc,                   \* position inside download_genome_files
    ftp_open,             \* an FTP session is open
    files,                \* NLST result of this invocation
    md5_checksums,        \* the checksum ledger of this invocation
    target_files,         \* the filtered files
    idx,                  \* index of the current target file
    downloaded_resources, \* resources of the files uploaded
    attempt,              \* attempt number of the current file
    local_file,           \* content staged in local_dir / filename
    outcome,              \* history: branch each target file ended in
    fetch_count,          \* history: RETR calls per file, this invocation
    upload_count,         \* history: upload_file calls per key, this invocation
    mismatch_count,       \* history: fetches whose digest mismatched, per file
    last_call,            \* history: the latest archive or store call
    store0,               \* history: the bucket when the invocation started
    error,                \* history: where the propagated exception was raised
    builder_files,        \* builder: the downloaded_files passed to the builder
    descriptor,           \* builder: the manifest it returned
    built,                \* builder: how the call ended
    args,                 \* main: the command line and what it names
    main_pc,              \* main: position inside main
    items_to_process,     \* main: the worklist
    item_no,              \* main: number of the current item (i)
    success_count,        \* main: items whose call returned
    failed,               \* main: (entry, error) of the items whose call raised
    temp_dir,             \* main: the staging directory
    summary,              \* main: what the summary reported
    exit_status,          \* main: exit status of the process
    exit_cause,           \* history: what ended the process
    calls,                \* history: the calls of download_genome_files
    temp_created,         \* history: staging directories created
    delays,               \* history: calls of time.sleep(0.5) in the loop
    tree,                 \* discovery: the archive's answer for each path listed
    stack,                \* discovery: the calls of traverse_directory under way
    assembly_dirs,        \* discovery: the paths found
    walk_pc,              \* discovery: position of the walk
    listed,               \* history: the paths on which cwd and LIST were issued
    shard,                \* locator: the archive's answer for base_path
    found,                \* locator: how find_assembly_dir ended, and with what
    lookups,              \* history: LIST commands issued by find_assembly_dir
    entry_str,            \* resolver: the entry given to download_genome_files
    parsed,               \* resolver: how parse_accession ended, and with what
    ftp_path,             \* resolver: how build_ftp_path ended, and with what
    reparsed,             \* resolver: parse_accession of the accession returned
    md5_content,          \* parser: the text of md5checksums.txt
    parsed_checksums,     \* parser: the dict that parse_md5checksums returned
    parse_how,            \* parser: how parse_md5checksums ended
    session_mode,         \* sessions: file mode or prefix mode of main
    todo,                 \* sessions: items of the worklist not yet taken
    session_pc,           \* sessions: position in main and download_genome_files
    sessions,             \* sessions: FTP control connections that are open
    session_log,          \* history: how the call of each item ended
    bucket_keys,          \* client: the keys of the objects in the bucket
    uploaded,             \* history: keys that upload_file has stored
    listing,              \* client: how list_objects ended, and with what
    loader,               \* loader: the function called, and its arguments
    sheet,                \* loader: the rows of the sheet it reads
    df,                   \* loader: the rows it iterates over
    row_no,               \* loader: rows whose iteration has ended
    load_pc,              \* loader: position inside the function
    puts,                 \* history: the put_json_object calls that returned
    walk_root,            \* hand-over: the ftp_path main built from --prefix
    found_path,           \* hand-over: a path the discovery returned
    path_match            \* hand-over: what the path parser made of it

archive == <<ftp_files, ftp_md5_content>>
mainv == <<failed_transfers, no_checksum_files, run, result>>
locals == <<files, md5_checksums, target_files, idx, downloaded_resources,
            attempt, local_file>>
history == <<outcome, fetch_count, upload_count, mismatch_count, last_call,
             store0, error>>
engine == <<archive, store, mainv, pc, ftp_open, locals, history>>
builder == <<builder_files, descriptor, built>>
orchestrator == <<args, main_pc, items_to_process, item_no, success_count,
                  failed, temp_dir, summary, exit_status, exit_cause, calls,
                  temp_created, delays>>
discovery == <<tree, stack, assembly_dirs, walk_pc, listed>>
locator == <<shard, found, lookups>>
resolver == <<entry_str, parsed, ftp_path, reparsed>>
parser == <<md5_content, parsed_checksums, parse_how>>
sessionv == <<session_mode, todo, session_pc, sessions, session_log>>
clientv == <<bucket_keys, uploaded, listing>>
loaderv == <<loader, sheet, df, row_no, load_pc, puts>>
handover == <<walk_root, found_path, path_match>>
further == <<clientv, loaderv, handover>>
others == <<builder, orchestrator, discovery, locator, resolver, parser,
            sessionv, further>>
vars == <<engine, others>>

\* the variables of the manifest builder while another function is observed
BuilderOff ==
    /\ builder_files = <<>>
    /\ descriptor = None
    /\ built = "none"

\* the variables of the discovery while another function is observed
DiscoveryOff ==
    /\ tree = EmptyDict
    /\ stack = <<>>
    /\ assembly_dirs = <<>>
    /\ walk_pc = "off"
    /\ listed = <<>>

\* find_assembly_dir has not ended
NotFound == [how |-> "none", name |-> <<>>]

\* the variables of the locator while another function is observed
LocatorOff ==
    /\ shard = [ok |-> FALSE, items |-> <<>>]
    /\ found = NotFound
    /\ lookups = 0

\* parse_accession has not ended
NotParsed == [how |-> "none", prefix |-> "None", database |-> <<>>,
              accession_full |-> <<>>]

\* build_ftp_path has not ended
NoPath == [how |-> "none", path |-> <<>>]

\* the variables of the resolver while another function is observed
ResolverOff ==
    /\ entry_str = <<>>
    /\ parsed = NotParsed
    /\ ftp_path = NoPath
    /\ reparsed = NotParsed

\* the variables of the parser while another function is observed
ParserOff ==
    /\ md5_content = <<>>
    /\ parsed_checksums = EmptyDict
    /\ parse_how = "none"

\* the variables of the sessions while another function is observed
SessionOff ==
    /\ session_mode = "none"
    /\ todo = 0
    /\ session_pc = "off"
    /\ sessions = 0
    /\ session_log = <<>>

\* list_objects has not ended
NotListed == [how |-> "none", prefix |-> <<>>, keys |-> <<>>]

\* the variables of the client while another function is observed
ClientOff ==
    /\ bucket_keys = {}
    /\ uploaded = {}
    /\ listing = NotListed

\* no loader has been called
NoLoader == [name |-> "none", dry_run |-> FALSE,
             limit |-> [given |-> FALSE, n |-> 0],
             dts |-> FALSE, taxon_column |-> FALSE]

\* the variables of the loader while another function is observed
LoaderOff ==
    /\ loader = NoLoader
    /\ sheet = <<>>
    /\ df = <<>>
    /\ row_no = 0
    /\ load_pc = "off"
    /\ puts = <<>>

\* the path parser has not run
NoMatch == [how |-> "none", database |-> <<>>, assembly_dir |-> <<>>,
            accession_full |-> <<>>, base_path |-> <<>>]

\* the variables of the hand-over while another function is observed
HandoverOff ==
    /\ walk_root = <<>>
    /\ found_path = <<>>
    /\ path_match = NoMatch

\* the variables of the later sections while another function is observed
FurtherOff ==
    /\ ClientOff
    /\ LoaderOff
    /\ HandoverOff

\* no summary has been logged
NoSummary ==
    [logged |-> FALSE, total |-> 0, success |-> 0, failed |-> 0,
     failed_file_transfers |-> 0, files_without_checksums |-> 0,
     failed_accessions |-> <<>>, failed_transfers |-> <<>>,
     no_checksum_files |-> <<>>]

\* the variables of main's loop while another function is observed
OrchestratorOff ==
    /\ args = None
    /\ main_pc = "off"
    /\ items_to_process = <<>>
    /\ item_no = 0
    /\ success_count = 0
    /\ failed = <<>>
    /\ temp_dir = "none"
    /\ summary = NoSummary
    /\ exit_status = None
    /\ exit_cause = "none"
    /\ calls = <<>>
    /\ temp_created = 0
    /\ delays = 0

Range(s) == {s[i] : i \in 1..Len(s)}

filename == target_files[idx]
expected_checksum == DictGet(md5_checksums, filename)
InLoop == idx >= 1 /\ idx <= Len(target_files)

NoCall == [op |-> "none", key |-> <<>>, body |-> None]
NoError == [at |-> "none", file |-> <<>>, attempt |-> 0]

\* ------------------------------------------------------------------- Init
FullListing == <<md5_name, fna_name, gff_name, readme_name>>

Listing(S) ==
    LET Keep(n) == n \in S \cup {readme_name} IN SelectSeq(FullListing, Keep)

\* md5checksums.txt as published: a line per file with a digest, in the form
\* "<digest>  ./<name>", after a line with one token only and a blank line
ManifestText(led) ==
    << <<0>>, <<>> >> \o
    (IF led[fna_name] # None
        THEN << <<led[fna_name], <<".", "/">> \o fna_name>> >> ELSE <<>>) \o
    (IF led[gff_name] # None
        THEN << <<led[gff_name], <<".", "/">> \o gff_name>> >> ELSE <<>>)

\* the bucket before the first run: any objects at the keys of the target
\* files, and possibly the object bak_name where the fna key itself is free
InitStores ==
    {s \in UNION {[K -> Contents] : K \in SUBSET (TargetUniverse \cup {bak_name})} :
        bak_name \in DOMAIN s => (s[bak_name] = 0 /\ fna_name \notin DOMAIN s)}

Init ==
    /\ \E S \in SUBSET {md5_name, fna_name, gff_name} :
         /\ ftp_files = Listing(S)
         /\ IF md5_name \in S
            THEN \E led \in [TargetUniverse -> Digests \cup {None}] :
                    /\ \A f \in TargetUniverse \ S : led[f] = None
                    /\ ftp_md5_content = ManifestText(led)
            ELSE ftp_md5_content = <<>>
    /\ store \in InitStores
    /\ failed_transfers = <<>>
    /\ no_checksum_files = <<>>
    /\ run = 0
    /\ result = "none"
    /\ pc = "idle"
    /\ ftp_open = FALSE
    /\ files = <<>>
    /\ md5_checksums = EmptyDict
    /\ target_files = <<>>
    /\ idx = 0
    /\ downloaded_resources = <<>>
    /\ attempt = 0
    /\ local_file = None
    /\ outcome = [f \in TargetUniverse |-> "pending"]
    /\ fetch_count = [f \in TargetUniverse |-> 0]
    /\ upload_count = [k \in AllKeys |-> 0]
    /\ mismatch_count = [f \in TargetUniverse |-> 0]
    /\ last_call = NoCall
    /\ store0 = store
    /\ error = NoError
    /\ BuilderOff
    /\ OrchestratorOff
    /\ DiscoveryOff
    /\ LocatorOff
    /\ ResolverOff
    /\ ParserOff
    /\ SessionOff
    /\ FurtherOff

\* ---------------------------------------------------------------- actions
Called(op, key, body) == [op |-> op, key |-> key, body |-> body]
Bump(f, k) == [f EXCEPT ![k] = @ + 1]
AfterFile == IF idx + 1 > Len(target_files) THEN "descriptor" ELSE "loop"

\* the function is left, by return or by the re-raised exception, through
\* finally: ftp.quit(); control is back in main
Leave(how) ==
    /\ ftp_open' = FALSE
    /\ result' = how
    /\ pc' = "idle"

\* main starts with empty lists and a new staging directory and calls
\* download_genome_files: the FTP session is opened
Begin ==
    /\ pc = "idle"
    /\ run < MaxRuns
    /\ run' = run + 1
    /\ pc' = "locate"
    /\ ftp_open' = TRUE
    /\ files' = <<>>
    /\ md5_checksums' = EmptyDict
    /\ target_files' = <<>>
    /\ idx' = 0
    /\ downloaded_resources' = <<>>
    /\ attempt' = 0
    /\ local_file' = None
    /\ outcome' = [f \in TargetUniverse |-> "pending"]
    /\ fetch_count' = [f \in TargetUniverse |-> 0]
    /\ upload_count' = [k \in AllKeys |-> 0]
    /\ mismatch_count' = [f \in TargetUniverse |-> 0]
    /\ last_call' = NoCall
    /\ store0' = store
    /\ error' = NoError
    /\ failed_transfers' = <<>>
    /\ no_checksum_files' = <<>>
    /\ result' = "none"
    /\ UNCHANGED <<archive, store>>
    /\ UNCHANGED others

\* the assembly directory is located, entered and listed (NLST)
Locate ==
    /\ pc = "locate"
    /\ files' = ftp_files
    /\ pc' = "ledger"
    /\ last_call' = Called("nlst", <<>>, None)
    /\ UNCHANGED <<archive, store, mainv, ftp_open, md5_checksums, target_files,
                   idx, downloaded_resources, attempt, local_file, outcome,
                   fetch_count, upload_count, mismatch_count, store0, error>>
    /\ UNCHANGED others

\* md5checksums.txt is fetched, parsed and copied to the bucket when it is
\* listed; the target files are filtered; without target files the function
\* returns
LoadLedger ==
    /\ pc = "ledger"
    /\ IF md5_name \in Range(files)
       THEN /\ md5_checksums' = parse_md5checksums(ftp_md5_content)
            /\ store' = upload_file(store, md5_name, ftp_md5_content)
            /\ upload_count' = Bump(upload_count, md5_name)
            /\ last_call' = Called("upload", md5_name, None)
       ELSE /\ md5_checksums' = EmptyDict
            /\ UNCHANGED <<store, upload_count, last_call>>
    /\ target_files' = TargetFiles(files)
    /\ downloaded_resources' = <<>>
    /\ IF target_files' = <<>>
       THEN Leave("returned") /\ idx' = 0
       ELSE pc' = "loop" /\ idx' = 1 /\ UNCHANGED <<ftp_open, result>>
    /\ UNCHANGED <<archive, failed_transfers, no_checksum_files, run, files,
                   attempt, local_file, outcome, fetch_count, mismatch_count,
                   store0, error>>
    /\ UNCHANGED others

\* top of the loop over target_files: the existence check and its branch
CheckExists ==
    /\ pc = "loop"
    /\ LET existing_objects == list_objects(store, filename)
           branch == ExistingBranch(FileExists(existing_objects), expected_checksum)
       IN  /\ last_call' = Called("list", filename, None)
           /\ CASE branch = "verify" ->
                    /\ pc' = "verify"
                    /\ UNCHANGED <<no_checksum_files, outcome, idx, attempt>>
                [] branch = "skip" ->
                    /\ no_checksum_files' = Append(no_checksum_files,
                           [entry |-> accession_full, filename |-> filename,
                            status |-> "exists_in_minio"])
                    /\ outcome' = [outcome EXCEPT ![filename] = "skipped_unverifiable"]
                    /\ pc' = AfterFile
                    /\ idx' = idx + 1
                    /\ UNCHANGED attempt
                [] OTHER ->
                    /\ pc' = "fetch"
                    /\ attempt' = 1
                    /\ UNCHANGED <<no_checksum_files, outcome, idx>>
    /\ UNCHANGED <<archive, store, failed_transfers, run, result, ftp_open,
                   files,
                   md5_checksums, target_files, downloaded_resources, local_file,
                   fetch_count, upload_count, mismatch_count, store0, error>>
    /\ UNCHANGED others

\* the object at the destination key is downloaded and its digest compared;
\* download_file raises when no object has exactly that key
VerifyExisting ==
    /\ pc = "verify"
    /\ filename \in DOMAIN store
    /\ local_file' = store[filename]
    /\ last_call' = Called("download", filename, store[filename])
    /\ IF VerifyBranch(compute_md5(store[filename]), expected_checksum) = "skip"
       THEN /\ outcome' = [outcome EXCEPT ![filename] = "skipped_verified"]
            /\ pc' = AfterFile
            /\ idx' = idx + 1
            /\ UNCHANGED attempt
       ELSE /\ pc' = "fetch"
            /\ attempt' = 1
            /\ UNCHANGED <<outcome, idx>>
    /\ UNCHANGED <<archive, store, mainv, ftp_open, files, md5_checksums,
                   target_files, downloaded_resources, fetch_count, upload_count,
                   mismatch_count, store0, error>>
    /\ UNCHANGED others

\* one attempt: RETR into the staging file, then the digest check and its branch
Fetch ==
    /\ pc = "fetch"
    /\ \E c \in Contents :
         LET actual_checksum == compute_md5(c)
             branch == AttemptBranch(expected_checksum, actual_checksum, attempt)
         IN  /\ local_file' = c
             /\ last_call' = Called("fetch", filename, c)
             /\ fetch_count' = Bump(fetch_count, filename)
             /\ mismatch_count' =
                    IF expected_checksum # None /\ actual_checksum # expected_checksum
                    THEN Bump(mismatch_count, filename) ELSE mismatch_count
             /\ CASE branch = "retry" ->
                      /\ attempt' = attempt + 1
                      /\ pc' = "fetch"
                      /\ UNCHANGED <<failed_transfers, outcome, idx>>
                  [] branch = "fail" ->
                      /\ failed_transfers' = Append(failed_transfers,
                             [entry |-> accession_full, filename |-> filename,
                              reason |-> <<"Checksum mismatch after 3 attempts",
                                           expected_checksum, actual_checksum>>])
                      /\ outcome' = [outcome EXCEPT ![filename] = "failed"]
                      /\ pc' = AfterFile
                      /\ idx' = idx + 1
                      /\ UNCHANGED attempt
                  [] OTHER ->
                      /\ pc' = "upload"
                      /\ UNCHANGED <<failed_transfers, outcome, idx, attempt>>
    /\ UNCHANGED <<archive, store, no_checksum_files, run, result, ftp_open,
                   files,
                   md5_checksums, target_files, downloaded_resources, upload_count,
                   store0, error>>
    /\ UNCHANGED others

\* the staged file is uploaded and its resource recorded
Upload ==
    /\ pc = "upload"
    /\ store' = upload_file(store, filename, local_file)
    /\ upload_count' = Bump(upload_count, filename)
    /\ last_call' = Called("upload", filename, local_file)
    /\ IF expected_checksum # None
       THEN /\ downloaded_resources' = Append(downloaded_resources,
                   Resource(filename, local_file, compute_md5(local_file)))
            /\ outcome' = [outcome EXCEPT ![filename] = "uploaded_verified"]
            /\ UNCHANGED no_checksum_files
       ELSE /\ no_checksum_files' = Append(no_checksum_files,
                   [entry |-> accession_full, filename |-> filename,
                    status |-> "newly_uploaded"])
            /\ downloaded_resources' = Append(downloaded_resources,
                   Resource(filename, local_file, None))
            /\ outcome' = [outcome EXCEPT ![filename] = "uploaded_unverifiable"]
    /\ pc' = AfterFile
    /\ idx' = idx + 1
    /\ UNCHANGED <<archive, failed_transfers, run, result, ftp_open, files,
                   md5_checksums, target_files, attempt, local_file, fetch_count,
                   mismatch_count, store0, error>>
    /\ UNCHANGED others

\* after the loop: datapackage.json is built and uploaded when a file was
\* uploaded, and the function returns
Descriptor ==
    /\ pc = "descriptor"
    /\ IF downloaded_resources # <<>>
       THEN /\ store' = upload_file(store, datapackage_name,
                   create_frictionless_descriptor(assembly_dir, accession_full,
                                                  downloaded_resources))
            /\ upload_count' = Bump(upload_count, datapackage_name)
            /\ last_call' = Called("upload", datapackage_name, None)
       ELSE UNCHANGED <<store, upload_count, last_call>>
    /\ Leave("returned")
    /\ UNCHANGED <<archive, failed_transfers, no_checksum_files, run, locals,
                   outcome, fetch_count, mismatch_count, store0, error>>
    /\ UNCHANGED others

\* the pending call to the archive or to the bucket raises; nothing in the
\* function catches it before the outer except, which re-raises, and the
\* function is left through finally
CanRaise ==
    \/ pc \in {"locate", "loop", "verify", "fetch", "upload"}
    \/ pc = "ledger" /\ md5_name \in Range(files)
    \/ pc = "descriptor" /\ downloaded_resources # <<>>

Raise ==
    /\ CanRaise
    /\ error' = [at |-> pc,
                 file |-> IF pc \in {"loop", "verify", "fetch", "upload"}
                          THEN filename ELSE <<>>,
                 attempt |-> IF pc \in {"fetch", "upload"} THEN attempt ELSE 0]
    /\ Leave("raised")
    /\ UNCHANGED <<archive, store, failed_transfers, no_checksum_files, run,
                   locals, outcome, fetch_count, upload_count, mismatch_count,
                   last_call, store0>>
    /\ UNCHANGED others

Next ==
    \/ Begin
    \/ Locate
    \/ LoadLedger
    \/ CheckExists
    \/ VerifyExisting
    \/ Fetch
    \/ Upload
    \/ Descriptor
    \/ Raise

Spec == Init /\ [][Next]_vars

TypeOK ==
    /\ pc \in {"idle", "locate", "ledger", "loop", "verify", "fetch", "upload",
               "descriptor"}
    /\ run \in 0..MaxRuns
    /\ attempt \in 0..MaxAttempts
    /\ DOMAIN store \subseteq AllKeys

\* ------------------------------------------------- vocabulary of the claims
\* the ledger the archive publishes (empty without md5checksums.txt)
Ledger ==
    IF md5_name \in Range(ftp_files)
    THEN parse_md5checksums(ftp_md5_content) ELSE EmptyDict

\* the digest the archive publishes for f (None when it publishes none)
Published(f) == DictGet(Ledger, f)

\* the target files of the assembly directory
TargetsListed == {f \in TargetUniverse : f \in Range(ftp_files)}

\* entries appended for f by the invocation
FailedEntries(f) ==
    {i \in 1..Len(failed_transfers) : failed_transfers[i].filename = f}
NoChecksumEntries(f) ==
    {i \in 1..Len(no_checksum_files) : no_checksum_files[i].filename = f}
ResourcesOf(f) ==
    {i \in 1..Len(downloaded_resources) : downloaded_resources[i].name = f}

Uploaded(f) == outcome[f] \in {"uploaded_verified", "uploaded_unverifiable"}
Returned == pc = "idle" /\ run >= 1 /\ result = "returned"
Aborted == pc = "idle" /\ run >= 1 /\ result = "raised"
Unchanged(f) ==
    IF f \in DOMAIN store0 THEN f \in DOMAIN store /\ store[f] = store0[f]
    ELSE f \notin DOMAIN store

\* C1: a file with a published digest whose fetched content mismatched on
\* each of the 3 attempts has exactly one entry appended to failed_transfers,
\* was never uploaded in the invocation and has no resource, neither in
\* downloaded_resources nor in the datapackage.json the invocation wrote.
C1_MismatchExhaustion ==
    \A f \in TargetUniverse :
        mismatch_count[f] = MaxAttempts =>
            /\ Cardinality(FailedEntries(f)) = 1
            /\ upload_count[f] = 0
            /\ ResourcesOf(f) = {}
            /\ upload_count[datapackage_name] > 0 =>
                 \A i \in 1..Len(store[datapackage_name].resources) :
                     store[datapackage_name].resources[i].name # f

\* C1 witness: the fna file failed after 3 mismatches while the invocation
\* returned and wrote a datapackage.json for the other file.
C1_Witness ==
    /\ Returned
    /\ mismatch_count[fna_name] = MaxAttempts
    /\ outcome[fna_name] = "failed"
    /\ upload_count[datapackage_name] = 1

\* C2: every upload of a target file with a published digest directly follows
\* a fetch of that file whose staged content has the published digest, and
\* the object it writes under the destination key has that digest.
C2_UploadOnlyVerified ==
    [][LET pub == [g \in TargetUniverse |-> Published(g)] IN
       \A f \in TargetUniverse :
          (pub[f] # None /\ upload_count'[f] > upload_count[f]) =>
              /\ last_call.op = "fetch"
              /\ last_call.key = f
              /\ compute_md5(last_call.body) = pub[f]
              /\ f \in DOMAIN store'
              /\ compute_md5(store'[f]) = pub[f]]_vars

\* C2 witness: the fna file was uploaded verified after a mismatching attempt.
C2_Witness ==
    /\ Published(fna_name) # None
    /\ outcome[fna_name] = "uploaded_verified"
    /\ mismatch_count[fna_name] >= 1
    /\ compute_md5(store[fna_name]) = Published(fna_name)

\* C3: an error raised while a target file is processed (existence check,
\* verification download, fetch, upload) becomes a failed outcome of that
\* file and does not abort the assembly.
C3_FileErrorsContained ==
    error.at \in {"loop", "verify", "fetch", "upload"} =>
        /\ ~Aborted
        /\ outcome[error.file] = "failed"

\* C4: a fault during a fetch or an upload before the third attempt is
\* followed by a further attempt of that file, not by the end of the
\* invocation.
C4_FaultsRetried ==
    (error.at \in {"fetch", "upload"} /\ error.attempt < MaxAttempts) =>
        /\ ~Aborted
        /\ Cardinality(FailedEntries(error.file)) = 0

\* the store held every target file of the assembly, each with the published
\* digest, when the invocation started
Populated ==
    /\ run >= 1
    /\ TargetsListed # {}
    /\ \A f \in TargetsListed :
          /\ Published(f) # None
          /\ f \in DOMAIN store0
          /\ compute_md5(store0[f]) = Published(f)

\* C5 as stated: a second invocation on a populated store issues no upload
\* call at all and, when it returns, every target file was skipped as
\* verified.
C5_NoUploadAtAll ==
    (run >= 2 /\ Populated) =>
        /\ \A k \in AllKeys : upload_count[k] = 0
        /\ Returned => \A f \in TargetsListed : outcome[f] = "skipped_verified"

\* C5 amended: an invocation on a populated store fetches and uploads no
\* target file and uploads no datapackage.json, every target file is skipped
\* as verified when it returns, and its only upload call is the copy of
\* md5checksums.txt, which it issues once.
C5_Idempotent ==
    Populated =>
        /\ \A k \in AllKeys \ {md5_name} : upload_count[k] = 0
        /\ \A f \in TargetUniverse : fetch_count[f] = 0 /\ Unchanged(f)
        /\ upload_count[md5_name] <= 1
        /\ pc \in {"loop", "verify", "descriptor"} =>
              upload_count[md5_name] = 1
        /\ Returned =>
              /\ upload_count[md5_name] = 1
              /\ \A f \in TargetsListed : outcome[f] = "skipped_verified"

\* C5 witness: the second invocation returned on a store that the first one
\* had filled (it had written datapackage.json), with both files skipped.
C5_Witness ==
    /\ run = 2
    /\ Returned
    /\ Populated
    /\ TargetsListed = TargetUniverse
    /\ datapackage_name \in DOMAIN store0
    /\ \A f \in TargetUniverse : outcome[f] = "skipped_verified"
    /\ upload_count[md5_name] = 1

\* C6: a listed target file whose key held an object with the published
\* digest when the invocation started is never fetched nor uploaded, its
\* object stays as it was, nothing is appended for it to failed_transfers or
\* no_checksum_files, and the only outcome it gets is skipped_verified.
C6_SkipVerified ==
    LET pub == [g \in TargetUniverse |-> Published(g)] IN
    \A f \in TargetsListed :
        (/\ run >= 1
         /\ pub[f] # None
         /\ f \in DOMAIN store0
         /\ compute_md5(store0[f]) = pub[f]) =>
            /\ fetch_count[f] = 0
            /\ upload_count[f] = 0
            /\ Unchanged(f)
            /\ FailedEntries(f) = {}
            /\ NoChecksumEntries(f) = {}
            /\ outcome[f] \in {"pending", "skipped_verified"}
            /\ Returned => outcome[f] = "skipped_verified"

\* C6 witness: the fna file was skipped as verified while the gff file of the
\* same invocation was uploaded.
C6_Witness ==
    /\ Returned
    /\ outcome[fna_name] = "skipped_verified"
    /\ Uploaded(gff_name)
    /\ fetch_count[fna_name] = 0

\* C7: a listed target file whose key held an object with a digest other than
\* the published one is, once processed, either uploaded_verified after 1 to
\* 3 fetches of which only the last one matched, the object at its key then
\* having the published digest, or failed after 3 mismatching fetches, the
\* stale object left in place; an upload is pending only for verified staged
\* content.
C7_StaleRefetched ==
    LET pub == [g \in TargetUniverse |-> Published(g)] IN
    \A f \in TargetsListed :
        (/\ run >= 1
         /\ pub[f] # None
         /\ f \in DOMAIN store0
         /\ compute_md5(store0[f]) # pub[f]) =>
            /\ (pc = "upload" /\ filename = f) =>
                  compute_md5(local_file) = pub[f]
            /\ outcome[f] \in {"pending", "uploaded_verified", "failed"}
            /\ outcome[f] = "uploaded_verified" =>
                  /\ fetch_count[f] \in 1..MaxAttempts
                  /\ mismatch_count[f] = fetch_count[f] - 1
                  /\ upload_count[f] = 1
                  /\ compute_md5(store[f]) = pub[f]
            /\ outcome[f] = "failed" =>
                  /\ fetch_count[f] = MaxAttempts
                  /\ mismatch_count[f] = MaxAttempts
                  /\ upload_count[f] = 0
                  /\ Unchanged(f)
            /\ Returned => outcome[f] # "pending"

\* C7 witness: the stale fna object was replaced on the second attempt.
C7_Witness ==
    /\ Returned
    /\ fna_name \in DOMAIN store0
    /\ Published(fna_name) # None
    /\ compute_md5(store0[fna_name]) # Published(fna_name)
    /\ outcome[fna_name] = "uploaded_verified"
    /\ fetch_count[fna_name] = 2
    /\ compute_md5(store[fna_name]) = Published(fna_name)

\* C8: a listed target file whose key existed when the invocation started and
\* for which no digest is published is never fetched nor uploaded, its object
\* stays as it was, and once processed its outcome is skipped_unverifiable
\* with exactly one entry, of status exists_in_minio, in no_checksum_files.
C8_SkipUnverifiable ==
    LET pub == [g \in TargetUniverse |-> Published(g)] IN
    \A f \in TargetsListed :
        (run >= 1 /\ pub[f] = None /\ f \in DOMAIN store0) =>
            /\ fetch_count[f] = 0
            /\ upload_count[f] = 0
            /\ Unchanged(f)
            /\ FailedEntries(f) = {}
            /\ ResourcesOf(f) = {}
            /\ outcome[f] \in {"pending", "skipped_unverifiable"}
            /\ outcome[f] = "pending" => NoChecksumEntries(f) = {}
            /\ outcome[f] = "skipped_unverifiable" =>
                  /\ Cardinality(NoChecksumEntries(f)) = 1
                  /\ \A i \in NoChecksumEntries(f) :
                        no_checksum_files[i].status = "exists_in_minio"
            /\ Returned => outcome[f] = "skipped_unverifiable"

\* C8 witness: the gff file, present without a published digest, was skipped
\* and the invocation returned.
C8_Witness ==
    /\ Returned
    /\ gff_name \in DOMAIN store0
    /\ Published(gff_name) = None
    /\ outcome[gff_name] = "skipped_unverifiable"
    /\ Cardinality(NoChecksumEntries(gff_name)) = 1

\* C9: a listed target file with no object at its key and no published
\* digest is, once processed, uploaded_unverifiable after exactly one fetch
\* and one upload, with one newly_uploaded entry in no_checksum_files and a
\* resource whose hash is null.
C9_UploadUnverifiable ==
    LET pub == [g \in TargetUniverse |-> Published(g)] IN
    \A f \in TargetsListed :
        (/\ run >= 1
         /\ pub[f] = None
         /\ f \notin DOMAIN store0
         /\ outcome[f] # "pending") =>
            /\ outcome[f] = "uploaded_unverifiable"
            /\ fetch_count[f] = 1
            /\ upload_count[f] = 1
            /\ Cardinality(NoChecksumEntries(f)) = 1
            /\ \A i \in NoChecksumEntries(f) :
                  no_checksum_files[i].status = "newly_uploaded"
            /\ Cardinality(ResourcesOf(f)) = 1
            /\ \A i \in ResourcesOf(f) : downloaded_resources[i].hash = None

\* C10: when an invocation has ended without a failure of the upload of
\* datapackage.json itself, datapackage.json was uploaded in it if and only
\* if a target file reached an uploaded outcome in it; and the upload is
\* issued only once no target file is left to process.
C10_ManifestIffUploaded ==
    /\ (pc = "idle" /\ run >= 1 /\ error.at # "descriptor") =>
          (upload_count[datapackage_name] >= 1 <=>
               \E f \in TargetUniverse : Uploaded(f))
    /\ upload_count[datapackage_name] >= 1 =>
          /\ idx > Len(target_files)
          /\ \A f \in Range(target_files) : outcome[f] # "pending"

\* =================================================== the manifest builder
\* the engine's variables while another function is observed
EngineOff ==
    /\ ftp_files = <<>>
    /\ ftp_md5_content = <<>>
    /\ store = EmptyDict
    /\ failed_transfers = <<>>
    /\ no_checksum_files = <<>>
    /\ run = 0
    /\ result = "none"
    /\ pc = "idle"
    /\ ftp_open = FALSE
    /\ files = <<>>
    /\ md5_checksums = EmptyDict
    /\ target_files = <<>>
    /\ idx = 0
    /\ downloaded_resources = <<>>
    /\ attempt = 0
    /\ local_file = None
    /\ outcome = [f \in TargetUniverse |-> "pending"]
    /\ fetch_count = [f \in TargetUniverse |-> 0]
    /\ upload_count = [k \in AllKeys |-> 0]
    /\ mismatch_count = [f \in TargetUniverse |-> 0]
    /\ last_call = NoCall
    /\ store0 = EmptyDict
    /\ error = NoError

\* the lists of at most n elements of U
SeqsUpTo(U, n) == UNION {[1..k -> U] : k \in 0..n}

\* the dicts a caller can pass: name, path, format, bytes, hash
ResourceUniverse ==
    {Resource(f, c, h) : f \in TargetUniverse, c \in Contents,
                         h \in Digests \cup {None}}

BuilderInit ==
    /\ EngineOff
    /\ builder_files \in SeqsUpTo(ResourceUniverse, MaxFiles)
    /\ descriptor = None
    /\ built = "none"
    /\ OrchestratorOff
    /\ DiscoveryOff
    /\ LocatorOff
    /\ ResolverOff
    /\ ParserOff
    /\ SessionOff
    /\ FurtherOff

\* create_frictionless_descriptor is called with the list: the dict is built
\* and returned, whatever the list holds; no statement of it raises
BuildDescriptor ==
    /\ built = "none"
    /\ descriptor' = create_frictionless_descriptor(assembly_dir, accession_full,
                                                    builder_files)
    /\ built' = "returned"
    /\ UNCHANGED <<engine, builder_files, orchestrator, discovery, locator,
                   resolver, parser, sessionv, further>>

BuilderNext == BuildDescriptor

BuilderSpec == BuilderInit /\ [][BuilderNext]_vars

\* C11: a call of the manifest builder with an empty list ends in a failure,
\* and no manifest it returns has an empty resources list.
C11_EmptyListFails ==
    /\ (built # "none" /\ builder_files = <<>>) => built = "raised"
    /\ built = "returned" => descriptor.resources # <<>>

\* ------------------------------------------- the manifest of an invocation
\* the target files of this invocation that reached an uploaded outcome, in
\* the order of target_files
UploadedFiles == SelectSeq(target_files, Uploaded)

ResourceFields == {"name", "path", "format", "bytes", "hash"}

\* C12: the resources collected by an invocation are one per file uploaded
\* in it, in the order of the target files, with none for a skipped or
\* failed file; and the manifest that the invocation uploads holds exactly
\* this list as its resources: same length, same order, same five fields.
C12_ResourcesAreUploads ==
    /\ Len(downloaded_resources) = Len(UploadedFiles)
    /\ \A i \in 1..Len(downloaded_resources) :
          /\ downloaded_resources[i].name = UploadedFiles[i]
          /\ DOMAIN downloaded_resources[i] = ResourceFields
    /\ upload_count[datapackage_name] >= 1 =>
          LET resources == store[datapackage_name].resources IN
          /\ downloaded_resources # <<>>
          /\ Len(resources) = Len(downloaded_resources)
          /\ \A i \in 1..Len(resources) :
                /\ DOMAIN resources[i] = ResourceFields
                /\ \A k \in ResourceFields :
                      resources[i][k] = downloaded_resources[i][k]

\* a manifest with two resources was uploaded, and one with a single
\* resource where the first target file was skipped or failed
C12_Witness ==
    /\ Returned
    /\ upload_count[datapackage_name] >= 1
    /\ Len(target_files) = 2
    /\ Len(downloaded_resources) = 1
    /\ ~Uploaded(target_files[1])
    /\ Len(store[datapackage_name].resources) = 1

\* ======================================================= main and its loop
\* the entries a worklist is made of: accessions of the input file, or the
\* assembly paths that the discovery returned
EntryNames == {"GCA_000195005.1", "GCF_000001215.2"}

\* what a run of main is started with: the mode, whether the input file is
\* there, its lines (file mode) or the paths discovered (prefix mode),
\* --limit, and whether the bucket and the path prefix exist in the store
ArgsUniverse ==
    {a \in [mode : {"file", "prefix"}, input_exists : BOOLEAN,
            entries : SeqsUpTo(EntryNames, MaxItems), limit : {None, 1},
            store_ok : BOOLEAN] :
        /\ a.mode = "prefix" => a.input_exists
        /\ ~a.input_exists => (a.entries = <<>> /\ a.limit = None)}

\* accessions[:args.limit]
Limit(list, limit) ==
    IF limit = None \/ limit >= Len(list) THEN list ELSE SubSeq(list, 1, limit)

\* items_to_process = accessions if accessions else assembly_paths
Worklist(accessions, assembly_paths) ==
    IF accessions # <<>> THEN accessions ELSE assembly_paths

\* variant: the staging directory outlives its TemporaryDirectory object
Finalize_Leaves(t) == t

\* tempfile.TemporaryDirectory: the directory is removed when the object is
\* finalized, which is when main's frame is released or the interpreter exits
Finalize(t) == IF t = "created" THEN "removed" ELSE t

\* variant: the item whose call raised is taken again
NextItem_RetryRaised(k, how) == IF how = "raised" THEN k ELSE k + 1

\* for i, entry in enumerate(items_to_process, 1): the item after item k
NextItem(k, how) == k + 1

\* variant: the item is counted as succeeded however its call ended
CountSuccess_Always(count, how) == count + 1

\* success_count += 1 follows the call inside try: it is skipped by a raise
CountSuccess(count, how) == IF how = "returned" THEN count + 1 ELSE count

\* variant: every item is put on the failed list
RecordFailed_Always(list, entry, how) == Append(list, <<entry, "error">>)

\* except Exception as e: failed.append((entry, str(e)))
RecordFailed(list, entry, how) ==
    IF how = "raised" THEN Append(list, <<entry, "error">>) ELSE list

\* time.sleep(0.5) follows success_count += 1 inside try: it is skipped by a
\* raise
Sleep(n, how) == IF how = "returned" THEN n + 1 ELSE n

\* variant: main ends with sys.exit(1) when an item has failed
ExitStatus_OfFailures(failed_items, transfers) ==
    IF failed_items # <<>> \/ transfers # <<>> THEN 1 ELSE 0

\* main returns None after the summary whatever the lists hold: the
\* interpreter exits with status 0
ExitStatus(failed_items, transfers) == 0

\* variant: the last entry of a list is not logged
Itemized_DropsLast(list) ==
    IF list = <<>> THEN list ELSE SubSeq(list, 1, Len(list) - 1)

\* for transfer in failed_transfers: logger.warning(...): the entries that
\* the summary enumerates
Itemized(list) == list

entry == items_to_process[item_no]
CurrentCall == calls[Len(calls)]

MainInit ==
    /\ EngineOff
    /\ BuilderOff
    /\ DiscoveryOff
    /\ LocatorOff
    /\ ResolverOff
    /\ ParserOff
    /\ SessionOff
    /\ FurtherOff
    /\ args \in ArgsUniverse
    /\ main_pc = "start"
    /\ items_to_process = <<>>
    /\ item_no = 0
    /\ success_count = 0
    /\ failed = <<>>
    /\ temp_dir = "none"
    /\ summary = NoSummary
    /\ exit_status = None
    /\ exit_cause = "none"
    /\ calls = <<>>
    /\ temp_created = 0
    /\ delays = 0

enginelocal == <<archive, store, run, result, pc, ftp_open, locals, history>>

\* the process ends with the given status; what is left of the staging
\* directory is decided by the finalizer of its object
Exit(status, cause) ==
    /\ exit_status' = status
    /\ exit_cause' = cause
    /\ temp_dir' = Finalize(temp_dir)
    /\ main_pc' = "exited"

\* the worklist is read from the input file, or discovered in prefix mode
\* under an FTP session of its own; a missing input file and an empty
\* discovery end the process with sys.exit(1)
ReadWorklist ==
    /\ main_pc = "start"
    /\ IF args.mode = "file" /\ ~args.input_exists
       THEN Exit(1, "input_file_missing") /\ UNCHANGED items_to_process
       ELSE IF args.mode = "prefix" /\ args.entries = <<>>
       THEN Exit(1, "no_assemblies") /\ UNCHANGED items_to_process
       ELSE /\ items_to_process' =
                  IF args.mode = "file"
                  THEN Worklist(Limit(args.entries, args.limit), <<>>)
                  ELSE Worklist(<<>>, Limit(args.entries, args.limit))
            /\ main_pc' = "client"
            /\ UNCHANGED <<temp_dir, exit_status, exit_cause>>
    /\ UNCHANGED <<engine, builder, discovery, locator, resolver, parser,
                   sessionv, further,
                   args, item_no, success_count, failed,
                   summary, calls, temp_created, delays>>

\* connecting to the archive for the discovery raises: nothing in main
\* catches it
SetupRaises ==
    /\ main_pc = "start"
    /\ args.mode = "prefix"
    /\ Exit(1, "archive_error")
    /\ UNCHANGED <<engine, builder, discovery, locator, resolver, parser,
                   sessionv, further,
                   args, items_to_process, item_no,
                   success_count, failed, summary, calls, temp_created, delays>>

\* get_minio_client raises when the bucket or the path prefix is missing;
\* otherwise the staging directory is created and the loop is entered
GetClient ==
    /\ main_pc = "client"
    /\ IF ~args.store_ok
       THEN Exit(1, "store_missing") /\ UNCHANGED <<item_no, temp_created>>
       ELSE /\ temp_dir' = "created"
            /\ temp_created' = temp_created + 1
            /\ item_no' = 1
            /\ main_pc' = "loop"
            /\ UNCHANGED <<exit_status, exit_cause>>
    /\ UNCHANGED delays
    /\ UNCHANGED <<engine, builder, discovery, locator, resolver, parser,
                   sessionv, further,
                   args, items_to_process, success_count,
                   failed, summary, calls>>

\* download_genome_files is called with the current entry
CallEngine ==
    /\ main_pc = "loop"
    /\ item_no <= Len(items_to_process)
    /\ calls' = Append(calls, [entry |-> entry, how |-> "running",
                               ft0 |-> Len(failed_transfers),
                               nc0 |-> Len(no_checksum_files)])
    /\ main_pc' = "call"
    /\ UNCHANGED <<engine, builder, discovery, locator, resolver, parser,
                   sessionv, further,
                   args, items_to_process, item_no,
                   success_count, failed, temp_dir, summary, exit_status,
                   exit_cause,
                   temp_created, delays>>

\* inside the call a file ends as a failed transfer or as a file without
\* checksum: the engine appends to the list it was passed
EngineRecords ==
    /\ main_pc = "call"
    /\ \/ /\ Len(failed_transfers) - CurrentCall.ft0 < MaxRecords
          /\ failed_transfers' = Append(failed_transfers,
                 [entry |-> entry, filename |-> fna_name,
                  reason |-> <<"Checksum mismatch after 3 attempts", 0, 1>>])
          /\ UNCHANGED no_checksum_files
       \/ /\ Len(no_checksum_files) - CurrentCall.nc0 < MaxRecords
          /\ no_checksum_files' = Append(no_checksum_files,
                 [entry |-> entry, filename |-> gff_name,
                  status |-> "newly_uploaded"])
          /\ UNCHANGED failed_transfers
    /\ UNCHANGED <<enginelocal, builder, discovery, locator, resolver, parser,
                   sessionv, further,
                   orchestrator>>

\* the call is over: it returned, and main counts the item and sleeps, or
\* it raised an Exception, and main appends the item to failed; either way
\* the loop goes on with the next item
EngineEnds(how) ==
    /\ calls' = [calls EXCEPT ![Len(calls)].how = how]
    /\ success_count' = CountSuccess(success_count, how)
    /\ failed' = RecordFailed(failed, entry, how)
    /\ item_no' = NextItem(item_no, how)
    /\ delays' = Sleep(delays, how)
    /\ main_pc' = "loop"
    /\ UNCHANGED <<engine, builder, discovery, locator, resolver, parser,
                   sessionv, further,
                   args, items_to_process, temp_dir, summary,
                   exit_status, exit_cause, temp_created>>

EngineReturns ==
    /\ main_pc = "call"
    /\ EngineEnds("returned")

EngineRaises ==
    /\ main_pc = "call"
    /\ EngineEnds("raised")

\* the loop is over: the summary is logged from the counters and the lists
Summary ==
    /\ main_pc = "loop"
    /\ item_no > Len(items_to_process)
    /\ summary' = [logged |-> TRUE, total |-> Len(items_to_process),
                   success |-> success_count,
                   failed |-> Len(failed),
                   failed_file_transfers |-> Len(failed_transfers),
                   files_without_checksums |-> Len(no_checksum_files),
                   failed_accessions |-> Itemized(failed),
                   failed_transfers |-> Itemized(failed_transfers),
                   no_checksum_files |-> Itemized(no_checksum_files)]
    /\ main_pc' = "summary"
    /\ UNCHANGED <<engine, builder, discovery, locator, resolver, parser,
                   sessionv, further,
                   args, items_to_process, item_no,
                   success_count, failed, temp_dir, exit_status, exit_cause,
                   calls,
                   temp_created, delays>>

\* main returns and the interpreter exits
MainReturns ==
    /\ main_pc = "summary"
    /\ Exit(ExitStatus(failed, failed_transfers), "returned")
    /\ UNCHANGED <<engine, builder, discovery, locator, resolver, parser,
                   sessionv, further,
                   args, items_to_process, item_no,
                   success_count, failed, summary, calls, temp_created, delays>>

\* the run is interrupted from outside (KeyboardInterrupt): except
\* Exception does not catch it and it leaves main
Interrupt ==
    /\ main_pc \in {"loop", "call", "summary"}
    /\ Exit(1, "interrupted")
    /\ UNCHANGED <<engine, builder, discovery, locator, resolver, parser,
                   sessionv, further,
                   args, items_to_process, item_no,
                   success_count, failed, summary, calls, temp_created, delays>>

MainNext ==
    \/ ReadWorklist
    \/ SetupRaises
    \/ GetClient
    \/ CallEngine
    \/ EngineRecords
    \/ EngineReturns
    \/ EngineRaises
    \/ Summary
    \/ MainReturns
    \/ Interrupt

MainSpec == MainInit /\ [][MainNext]_vars

\* ---------------------------------------------------- claims on main's loop
IsRaised(c) == c.how = "raised"
IsReturned(c) == c.how = "returned"
RaisedCalls == SelectSeq(calls, IsRaised)

\* the summary has been logged
Summarized == main_pc = "summary" \/ (main_pc = "exited" /\ exit_status = 0)

\* C13: the k-th call of download_genome_files is for the k-th item of the
\* worklist, so that every item is passed once and in order and none is
\* passed again after its call raised; the failed list holds, in order, the
\* entry of every call that raised; and when the summary is reached every
\* item has been passed, whatever calls raised before it.
C13_EachItemOnce ==
    /\ Len(calls) <= Len(items_to_process)
    /\ \A k \in 1..Len(calls) : calls[k].entry = items_to_process[k]
    /\ Len(failed) = Len(RaisedCalls)
    /\ \A k \in 1..Len(failed) : failed[k] = <<RaisedCalls[k].entry, "error">>
    /\ Summarized =>
          /\ Len(calls) = Len(items_to_process)
          /\ \A k \in 1..Len(calls) : calls[k].how \in {"returned", "raised"}

\* the summary of a run whose first item failed and whose second succeeded
C13_Witness ==
    /\ main_pc = "summary"
    /\ Len(calls) = 2
    /\ calls[1].entry # calls[2].entry
    /\ calls[1].how = "raised"
    /\ calls[2].how = "returned"
    /\ failed = << <<calls[1].entry, "error">> >>

\* the steps that main takes by itself once it runs; the interruption comes
\* from outside and recording an entry is up to the files of the assembly
MainStep ==
    \/ ReadWorklist
    \/ GetClient
    \/ CallEngine
    \/ EngineReturns
    \/ EngineRaises
    \/ Summary
    \/ MainReturns

\* every call of the engine ends and main goes on whenever it can
MainFairSpec == MainSpec /\ WF_vars(MainStep)

IsPrefix(a, b) == Len(a) <= Len(b) /\ SubSeq(b, 1, Len(a)) = a

\* the run was interrupted from outside after the setup
Interrupted == main_pc = "exited" /\ exit_status = 1 /\ temp_created = 1

\* C14: once the setup has succeeded and the loop is entered, the run reaches
\* the summary whatever calls raise and whatever entries are recorded, unless
\* it is interrupted from outside; the two lists only ever grow at their end,
\* and the summary enumerates them as they are when it is reached, so that it
\* holds every entry recorded, those of items whose call raised included.
C14_ReachesSummary ==
    /\ [](main_pc = "loop" => <>(Summarized \/ Interrupted))
    /\ [][/\ IsPrefix(failed_transfers, failed_transfers')
          /\ IsPrefix(no_checksum_files, no_checksum_files')]_vars
    /\ [](Summarized =>
            /\ summary.failed_transfers = failed_transfers
            /\ summary.no_checksum_files = no_checksum_files
            /\ summary.failed_file_transfers = Len(failed_transfers)
            /\ summary.files_without_checksums = Len(no_checksum_files))

\* the summary of a run whose only item recorded a failed transfer and a
\* file without checksum before its call raised
C14_Witness ==
    /\ main_pc = "summary"
    /\ Len(calls) = 1
    /\ calls[1].how = "raised"
    /\ Len(summary.failed_transfers) = 1
    /\ summary.failed_transfers[1].entry = calls[1].entry
    /\ Len(summary.no_checksum_files) = 1

ReturnedCalls == SelectSeq(calls, IsReturned)

\* C15: at the summary the succeeded and the failed items add up to the
\* worklist; the succeeded ones are exactly the items whose call returned,
\* whether or not files of theirs were recorded as failed transfers, and the
\* failed ones exactly the items whose call raised, so none is in both; and
\* the two file counts are the lengths of the lists, which were empty before
\* the first item and were never shortened between two items.
C15_CountsAtSummary ==
    /\ success_count = Len(ReturnedCalls)
    /\ Len(failed) = Len(RaisedCalls)
    /\ calls # <<>> => (calls[1].ft0 = 0 /\ calls[1].nc0 = 0)
    /\ \A k \in 1..(Len(calls) - 1) :
          /\ calls[k].ft0 <= calls[k + 1].ft0
          /\ calls[k].nc0 <= calls[k + 1].nc0
    /\ Summarized =>
          /\ summary.total = Len(items_to_process)
          /\ summary.success = Len(ReturnedCalls)
          /\ summary.failed = Len(RaisedCalls)
          /\ summary.success + summary.failed = summary.total
          /\ summary.failed_file_transfers = Len(failed_transfers)
          /\ summary.files_without_checksums = Len(no_checksum_files)
          /\ \A k \in 1..Len(calls) :
                /\ Len(failed_transfers) >= calls[k].ft0
                /\ Len(no_checksum_files) >= calls[k].nc0

\* the summary of a run whose first item returned with a failed transfer
\* recorded and whose second item raised
C15_Witness ==
    /\ main_pc = "summary"
    /\ Len(calls) = 2
    /\ calls[1].how = "returned"
    /\ calls[2].ft0 = 1
    /\ calls[2].how = "raised"
    /\ summary.success = 1
    /\ summary.failed = 1
    /\ summary.failed_file_transfers >= 1

\* C16: a run creates at most one staging directory, and exactly one once it
\* has passed the setup; the directory is there as long as the loop and the
\* summary run, and when the process has exited, after the summary, after
\* items failed or by an interruption, the directory it created is removed.
C16_StagingDirectory ==
    /\ temp_created <= 1
    /\ main_pc \in {"start", "client"} => (temp_created = 0 /\ temp_dir = "none")
    /\ main_pc \in {"loop", "call", "summary"} =>
          (temp_created = 1 /\ temp_dir = "created")
    /\ main_pc = "exited" =>
          /\ temp_dir # "created"
          /\ temp_created = 1 <=> temp_dir = "removed"
          /\ (exit_status = 0 \/ calls # <<>>) => temp_dir = "removed"

\* the process has left an interrupted run in which an item had failed
C16_Witness ==
    /\ main_pc = "exited"
    /\ exit_status = 1
    /\ failed # <<>>
    /\ temp_created = 1
    /\ temp_dir = "removed"

\* ==================================== find_assembly_directories_in_prefix
\* names and paths of the archive are sequences of characters
DigitChars == {"0", "1", "2", "3", "4", "5", "6", "7", "8", "9"}

AllDigits(str, from, to) == \A k \in from..to : str[k] \in DigitChars

\* re.compile(r'^GC[AF]_\d{9}\.\d+_.*').match(name)
assembly_pattern(name) ==
    /\ Len(name) >= 16
    /\ name[1] = "G"
    /\ name[2] = "C"
    /\ name[3] \in {"A", "F"}
    /\ name[4] = "_"
    /\ AllDigits(name, 5, 13)
    /\ name[14] = "."
    /\ \E j \in 15..(Len(name) - 1) :
          /\ AllDigits(name, 15, j)
          /\ name[j + 1] = "_"

\* directory names of the archive
shard_000 == <<"0", "0", "0">>
\* an assembly directory of the GCF database and one of the GCA database
asm_GCF == <<"G", "C", "F", "_", "0", "0", "0", "0", "0", "1", "2", "1", "5", ".", "2", "_", "R">>
asm_GCA == <<"G", "C", "A", "_", "0", "0", "0", "1", "9", "5", "0", "0", "5", ".", "1", "_", "A">>
\* an accession without the suffix that assembly directories carry
bare_GCA == <<"G", "C", "A", "_", "0", "0", "0", "1", "9", "5", "0", "0", "5", ".", "1">>

\* ftp_path = f"/genomes/all/{prefix}/" of a database code
prefix_path == <<"/", "g", "e", "n", "o", "m", "e", "s", "/", "a", "l", "l", "/", "G", "C", "F", "/">>

\* a LIST line: whether it starts with 'd', the number of its fields, and the
\* last of them
Line(is_dir, nparts, name) == [is_dir |-> is_dir, nparts |-> nparts, name |-> name]

\* f"{path}{name}/"
ChildPath(path, name) == path \o name \o <<"/">>

\* a line of a directory that is not an assembly directory
Descendable(line) ==
    line.is_dir /\ line.nparts >= 9 /\ ~assembly_pattern(line.name)

\* the lines of a listing: two directories that are no assemblies, an
\* assembly directory, and a plain file with the name of an assembly
LineUniverse ==
    {Line(TRUE, 9, shard_000), Line(TRUE, 9, bare_GCA), Line(TRUE, 9, asm_GCF),
     Line(FALSE, 9, asm_GCA)}

DescendableIn(items) == {k \in 1..Len(items) : Descendable(items[k])}

\* the directories, below prefix_path, that the answers so far have shown
\* and that are no assemblies
KnownDirectories ==
    {<<p, k>> \in (DOMAIN tree) \X (1..MaxWidth) :
        k \in DescendableIn(tree[p].items)}

\* the listings a directory at the given depth can answer with: no name is
\* listed twice, the tree is MaxDepth deep and holds MaxNodes directories
\* that are no assemblies
Listings(depth) ==
    LET known == Cardinality(KnownDirectories) IN
    {l \in SeqsUpTo(LineUniverse, MaxWidth) :
        /\ \A a, b \in 1..Len(l) : l[a].name = l[b].name => a = b
        /\ depth >= MaxDepth => DescendableIn(l) = {}
        /\ Cardinality(DescendableIn(l)) + known <= MaxNodes}

Listed(items) == [ok |-> TRUE, items |-> items]
Refused == [ok |-> FALSE, items |-> <<>>]

\* variant: a directory is recorded and entered as well
LineBranch_EntersAssemblies(line) ==
    IF line.nparts < 9 THEN "skip"
    ELSE IF ~line.is_dir THEN "skip"
    ELSE "recurse"

\* variant: lines of few fields are taken as well
LineBranch_TakesShortLines(line) ==
    IF ~line.is_dir THEN "skip"
    ELSE IF assembly_pattern(line.name) THEN "record"
    ELSE "recurse"

\* what the loop of traverse_directory does with one line of the listing
LineBranch(line) ==
    IF line.nparts < 9 THEN "skip"
    ELSE IF ~line.is_dir THEN "skip"
    ELSE IF assembly_pattern(line.name) THEN "record"
    ELSE "recurse"

\* variant: the error of one directory ends the whole walk
OnTraverseError_Propagates(path) == "propagate"

\* except Exception as e: logger.warning(...): the error is logged and the
\* call of traverse_directory on this path returns
OnTraverseError(path) == "abandon"

\* variant: the newest path is put in front
Found_InFront(dirs, full_path) == <<full_path>> \o dirs

\* assembly_dirs.append(full_path)
Found(dirs, full_path) == Append(dirs, full_path)

Frame(path) == [path |-> path, items |-> <<>>, pos |-> 0]
Top == stack[Len(stack)]
Depth == Len(stack) - 1

DiscoveryInit ==
    /\ EngineOff
    /\ BuilderOff
    /\ OrchestratorOff
    /\ LocatorOff
    /\ ResolverOff
    /\ ParserOff
    /\ SessionOff
    /\ FurtherOff
    /\ tree = EmptyDict
    /\ stack = <<Frame(prefix_path)>>
    /\ assembly_dirs = <<>>
    /\ walk_pc = "walking"
    /\ listed = <<>>

\* the call under way returns to its caller; the outermost call returns
\* assembly_dirs
Return(frames) ==
    /\ stack' = SubSeq(frames, 1, Len(frames) - 1)
    /\ walk_pc' = IF Len(frames) = 1 THEN "returned" ELSE "walking"

\* the archive's answer for a path does not change while the walk runs
Answers(path, answer) == path \in DOMAIN tree => tree[path] = answer

\* ftp.cwd(path) and LIST succeed: the lines are in items
ListDirectory ==
    /\ walk_pc = "walking"
    /\ Top.pos = 0
    /\ \E items \in Listings(Depth) :
          /\ Answers(Top.path, Listed(items))
          /\ tree' = DictPut(tree, Top.path, Listed(items))
          /\ stack' = [stack EXCEPT ![Len(stack)].items = items,
                                    ![Len(stack)].pos = 1]
    /\ listed' = Append(listed, Top.path)
    /\ UNCHANGED <<engine, builder, orchestrator, locator, resolver, parser,
                   sessionv, further,
                   assembly_dirs, walk_pc>>

\* ftp.cwd(path) or LIST raises: except logs a warning and the call returns
ListingFails ==
    /\ walk_pc = "walking"
    /\ Top.pos = 0
    /\ Answers(Top.path, Refused)
    /\ tree' = DictPut(tree, Top.path, Refused)
    /\ listed' = Append(listed, Top.path)
    /\ IF OnTraverseError(Top.path) = "abandon"
       THEN Return(stack)
       ELSE stack' = <<>> /\ walk_pc' = "raised"
    /\ UNCHANGED <<engine, builder, orchestrator, locator, resolver, parser,
                   sessionv, further,
                   assembly_dirs>>

\* one line of the listing: skipped, recorded as an assembly directory, or
\* entered by a call of traverse_directory on the child path
ScanLine ==
    /\ walk_pc = "walking"
    /\ Top.pos >= 1
    /\ Top.pos <= Len(Top.items)
    /\ LET line == Top.items[Top.pos]
           full_path == ChildPath(Top.path, line.name)
           after == [stack EXCEPT ![Len(stack)].pos = @ + 1]
       IN  CASE LineBranch(line) = "skip" ->
                    /\ stack' = after
                    /\ UNCHANGED assembly_dirs
             [] LineBranch(line) = "record" ->
                    /\ stack' = after
                    /\ assembly_dirs' = Found(assembly_dirs, full_path)
             [] OTHER ->
                    /\ stack' = Append(after, Frame(full_path))
                    /\ UNCHANGED assembly_dirs
    /\ UNCHANGED <<engine, builder, orchestrator, locator, resolver, parser,
                   sessionv, further,
                   tree, walk_pc, listed>>

\* the lines are exhausted: the call returns
ReturnFromDirectory ==
    /\ walk_pc = "walking"
    /\ Top.pos > Len(Top.items)
    /\ Return(stack)
    /\ UNCHANGED <<engine, builder, orchestrator, locator, resolver, parser,
                   sessionv, further,
                   tree, assembly_dirs, listed>>

DiscoveryNext ==
    \/ ListDirectory
    \/ ListingFails
    \/ ScanLine
    \/ ReturnFromDirectory

DiscoverySpec == DiscoveryInit /\ [][DiscoveryNext]_vars

\* ------------------------------------------------- claims on the discovery
\* the last name of a path that ends with "/"
BaseName(path) ==
    LET slashes == {k \in 1..(Len(path) - 1) : path[k] = "/"}
        last == CHOOSE k \in slashes : \A m \in slashes : m <= k
    IN  SubSeq(path, last + 1, Len(path) - 1)

\* a well-formed line of a directory that stands for an assembly
IsAssemblyDir(line) ==
    line.is_dir /\ line.nparts >= 9 /\ assembly_pattern(line.name)

\* the archive has shown the path as an assembly directory
ShownAsAssembly(path) ==
    \E p \in DOMAIN tree : \E k \in 1..Len(tree[p].items) :
        /\ IsAssemblyDir(tree[p].items[k])
        /\ ChildPath(p, tree[p].items[k].name) = path

StrictPrefix(a, b) == IsPrefix(a, b) /\ a # b

\* C17: no path on which cwd and LIST are issued ends in a name of the
\* assembly pattern; every path returned is that of a directory line whose
\* name matches the pattern; and no path returned is a strict prefix of
\* another one.
C17_LeavesOnly ==
    /\ \A k \in 1..Len(listed) : ~assembly_pattern(BaseName(listed[k]))
    /\ \A k \in 1..Len(assembly_dirs) :
          /\ assembly_pattern(BaseName(assembly_dirs[k]))
          /\ ShownAsAssembly(assembly_dirs[k])
    /\ \A a, b \in 1..Len(assembly_dirs) :
          ~StrictPrefix(assembly_dirs[a], assembly_dirs[b])

\* the walk has returned an assembly found one level below prefix_path,
\* where prefix_path itself holds a line that is no directory
C17_Witness ==
    /\ walk_pc = "returned"
    /\ assembly_dirs = <<ChildPath(ChildPath(prefix_path, shard_000), asm_GCF)>>
    /\ Len(listed) = 2
    /\ \E k \in 1..Len(tree[prefix_path].items) :
          ~tree[prefix_path].items[k].is_dir

NoDuplicates(seq) == \A a, b \in 1..Len(seq) : seq[a] = seq[b] => a = b

WasRefused(path) == path \in DOMAIN tree /\ ~tree[path].ok

\* C18: an error of cwd or LIST at one path is not retried and does not end
\* the walk with an exception; the assemblies recorded stay recorded; and
\* when the walk has returned, cwd and LIST were issued on every directory,
\* not an assembly, of every listing that was obtained, whatever paths were
\* refused before it.
C18_ErrorsContained ==
    /\ [](/\ walk_pc # "raised"
          /\ \A a, b \in 1..Len(listed) :
                (WasRefused(listed[a]) /\ listed[a] = listed[b]) => a = b
          /\ walk_pc = "returned" =>
                \A p \in DOMAIN tree : \A k \in DescendableIn(tree[p].items) :
                    ChildPath(p, tree[p].items[k].name) \in Range(listed))
    /\ [][IsPrefix(assembly_dirs, assembly_dirs')]_vars

\* the walk has returned the assembly of the second of two directories
\* after the first one was refused
C18_Witness ==
    /\ walk_pc = "returned"
    /\ Len(listed) = 3
    /\ WasRefused(listed[2])
    /\ tree[listed[3]].ok
    /\ assembly_dirs = <<ChildPath(listed[3], asm_GCF)>>

RECURSIVE PreOrder(_, _)
\* the assembly directories from line k of the listing of path on, each
\* directory that is no assembly being replaced by what lies below it
PreOrder(path, k) ==
    IF path \notin DOMAIN tree \/ k > Len(tree[path].items) THEN <<>>
    ELSE LET line == tree[path].items[k]
             child == ChildPath(path, line.name)
         IN  (IF IsAssemblyDir(line) THEN <<child>>
              ELSE IF Descendable(line) THEN PreOrder(child, 1)
              ELSE <<>>) \o PreOrder(path, k + 1)

\* C19: cwd and LIST are issued at most once on a path; and the sequence
\* returned is the pre-order sequence, in listing order, of the assembly
\* directories of the tree that the archive has shown, so that it is fixed
\* by the answers of the archive alone.
C19_PreOrderOnce ==
    /\ NoDuplicates(listed)
    /\ walk_pc = "returned" => assembly_dirs = PreOrder(prefix_path, 1)

\* the walk has returned an assembly of a subdirectory before an assembly
\* that is listed after that subdirectory
C19_Witness ==
    /\ walk_pc = "returned"
    /\ assembly_dirs = <<ChildPath(ChildPath(prefix_path, bare_GCA), asm_GCF),
                         ChildPath(prefix_path, asm_GCF)>>

\* ======================================================= find_assembly_dir
\* accession_full as the characters that names are compared with
accession_chars == bare_GCA

\* the assembly directory of another version of the same assembly
asm_GCA_v10 == <<"G", "C", "A", "_", "0", "0", "0", "1", "9", "5", "0", "0", "5", ".", "1", "0", "_", "B">>

\* the lines that the shard directory base_path can list: directories of the
\* accession, of another version and of another assembly, one without
\* suffix, a line of few fields and a plain file
ShardLines ==
    {Line(TRUE, 9, n) : n \in {asm_GCA, asm_GCA_v10, asm_GCF, bare_GCA}}
        \cup {Line(TRUE, 3, asm_GCA), Line(FALSE, 9, asm_GCA_v10)}

RECURSIVE ScanBackwards(_, _, _)
ScanBackwards(dirs, k, accession) ==
    IF k < 1 THEN [how |-> "raised", name |-> <<>>]
    ELSE IF dirs[k].nparts >= 9 /\ StartsWith(dirs[k].name, accession)
    THEN [how |-> "returned", name |-> dirs[k].name]
    ELSE ScanBackwards(dirs, k - 1, accession)

RECURSIVE ScanDirs(_, _, _)
\* for line in dirs: the first line of at least nine fields whose last field
\* starts with the accession is returned; FileNotFoundError after the loop
ScanDirs(dirs, k, accession) ==
    IF k > Len(dirs) THEN [how |-> "raised", name |-> <<>>]
    ELSE IF dirs[k].nparts >= 9 /\ StartsWith(dirs[k].name, accession)
    THEN [how |-> "returned", name |-> dirs[k].name]
    ELSE ScanDirs(dirs, k + 1, accession)

\* variant: the last matching line is returned
find_assembly_dir_LastMatch(answer, accession) ==
    IF ~answer.ok THEN [how |-> "raised", name |-> <<>>]
    ELSE ScanBackwards(answer.items, Len(answer.items), accession)

\* find_assembly_dir: an error of cwd or LIST and the missing directory are
\* both raised again as Exception("Error finding assembly directory: ...")
find_assembly_dir(answer, accession) ==
    IF ~answer.ok THEN [how |-> "raised", name |-> <<>>]
    ELSE ScanDirs(answer.items, 1, accession)

LocatorInit ==
    /\ EngineOff
    /\ BuilderOff
    /\ OrchestratorOff
    /\ DiscoveryOff
    /\ ResolverOff
    /\ ParserOff
    /\ SessionOff
    /\ FurtherOff
    /\ shard \in {Refused} \cup {Listed(l) : l \in SeqsUpTo(ShardLines, MaxLines)}
    /\ found = NotFound
    /\ lookups = 0

\* download_genome_files calls find_assembly_dir for its accession: one cwd
\* and one LIST are issued; what it raises leaves download_genome_files
LocateAssembly ==
    /\ found.how = "none"
    /\ lookups' = lookups + 1
    /\ found' = find_assembly_dir(shard, accession_chars)
    /\ UNCHANGED <<engine, builder, orchestrator, discovery, resolver, parser,
                   sessionv, further,
                   shard>>

LocatorNext == LocateAssembly

LocatorSpec == LocatorInit /\ [][LocatorNext]_vars

\* line k of the shard's listing has at least nine fields and a name that
\* starts with the accession
Matching(k) ==
    /\ shard.items[k].nparts >= 9
    /\ StartsWith(shard.items[k].name, accession_chars)

\* C20: when find_assembly_dir has ended, it has returned the name of the
\* first line, in listing order, that is an entry (a line of at least nine
\* fields) and whose name starts with the accession, and
\* it has raised when the listing was refused or holds no such line; one
\* LIST was issued for the accession and none after the failure.
C20_FirstMatch ==
    found.how # "none" =>
        /\ lookups = 1
        /\ IF shard.ok /\ \E k \in 1..Len(shard.items) : Matching(k)
           THEN /\ found.how = "returned"
                /\ \E k \in 1..Len(shard.items) :
                      /\ Matching(k)
                      /\ \A j \in 1..(k - 1) : ~Matching(j)
                      /\ found.name = shard.items[k].name
           ELSE found.how = "raised" /\ found.name = <<>>

\* the second line was returned: the first one has few fields and the third
\* one matches as well, under another name
C20_Witness ==
    /\ found.how = "returned"
    /\ Len(shard.items) = 3
    /\ shard.items[1].nparts < 9
    /\ found.name = shard.items[2].name
    /\ Matching(3)
    /\ shard.items[3].name # found.name

\* ======================================== parse_accession, build_ftp_path
\* entries and accessions are sequences of characters

\* the longest identifier and the longest version that entries are built with
MaxIdDigits == 10
MaxVersionDigits == 2

\* the characters of the class [\d.]
AccessionChars == DigitChars \cup {"."}

\* str.strip(): the whitespace at both ends is removed
RECURSIVE Strip(_)
Strip(str) ==
    IF str = <<>> THEN <<>>
    ELSE IF Head(str) = " " THEN Strip(Tail(str))
    ELSE IF str[Len(str)] = " " THEN Strip(SubSeq(str, 1, Len(str) - 1))
    ELSE str

\* the end of the longest run of characters of class that starts at from; a
\* greedy + or {n,} of a regular expression takes all of it
RunEnd(str, from, class) ==
    CHOOSE j \in (from - 1)..Len(str) :
        /\ \A k \in from..j : str[k] \in class
        /\ j = Len(str) \/ str[j + 1] \notin class

\* GC[AF]_ at position from of str
DatabaseAt(str, from) ==
    /\ Len(str) >= from + 3
    /\ str[from] = "G"
    /\ str[from + 1] = "C"
    /\ str[from + 2] \in {"A", "F"}
    /\ str[from + 3] = "_"

\* re.match(r'(GB|RS)_(GC[AF])_([\d.]+)', entry.strip())
MatchesPrefixed(str) ==
    /\ Len(str) >= 8
    /\ <<str[1], str[2]>> \in {<<"G", "B">>, <<"R", "S">>}
    /\ str[3] = "_"
    /\ DatabaseAt(str, 4)
    /\ RunEnd(str, 8, AccessionChars) >= 8

\* re.match(r'(GC[AF])_([\d.]+)', entry.strip())
MatchesBare(str) ==
    /\ DatabaseAt(str, 1)
    /\ RunEnd(str, 5, AccessionChars) >= 5

\* what parse_accession returns and what it raises
Parsed(prefix, database, full) ==
    [how |-> "ok", prefix |-> prefix, database |-> database,
     accession_full |-> full]
MalformedAccession ==
    [how |-> "raised", prefix |-> "None", database |-> <<>>,
     accession_full |-> <<>>]

\* variant: the whole match, registry prefix included, is the accession
parse_accession_KeepsPrefix(entry_arg) ==
    LET str == Strip(entry_arg) IN
    IF MatchesPrefixed(str)
    THEN Parsed(str[1] \o str[2], SubSeq(str, 4, 6),
                SubSeq(str, 1, RunEnd(str, 8, AccessionChars)))
    ELSE IF MatchesBare(str)
    THEN Parsed("None", SubSeq(str, 1, 3),
                SubSeq(str, 1, RunEnd(str, 5, AccessionChars)))
    ELSE MalformedAccession

\* parse_accession: (prefix, database, f"{database}_{accession_num}") of the
\* prefixed pattern, (None, database, match.group(0)) of the bare one,
\* ValueError("Invalid entry format") otherwise
parse_accession(entry_arg) ==
    LET str == Strip(entry_arg) IN
    IF MatchesPrefixed(str)
    THEN Parsed(str[1] \o str[2], SubSeq(str, 4, 6),
                SubSeq(str, 4, 6) \o <<"_">>
                    \o SubSeq(str, 8, RunEnd(str, 8, AccessionChars)))
    ELSE IF MatchesBare(str)
    THEN Parsed("None", SubSeq(str, 1, 3),
                SubSeq(str, 1, RunEnd(str, 5, AccessionChars)))
    ELSE MalformedAccession

\* variant: the separator after the ninth digit is not asked for
MatchesShardPattern_AnyTenth(full) ==
    /\ Len(full) >= 15
    /\ DatabaseAt(full, 1)
    /\ AllDigits(full, 5, 13)
    /\ full[15] \in DigitChars

\* re.match(r'GC[AF]_(\d{3})(\d{3})(\d{3})\.\d+', accession_full)
MatchesShardPattern(full) ==
    /\ Len(full) >= 15
    /\ DatabaseAt(full, 1)
    /\ AllDigits(full, 5, 13)
    /\ full[14] = "."
    /\ full[15] \in DigitChars

genomes_all == <<"/", "g", "e", "n", "o", "m", "e", "s", "/", "a", "l", "l", "/">>

\* variant: the second and the third group change places
ShardPath_SwapsGroups(database, full) ==
    genomes_all \o database \o <<"/">> \o SubSeq(full, 5, 7) \o <<"/">>
        \o SubSeq(full, 11, 13) \o <<"/">> \o SubSeq(full, 8, 10) \o <<"/">>

\* f"/genomes/all/{database}/{part1}/{part2}/{part3}/" of match.groups()
ShardPath(database, full) ==
    genomes_all \o database \o <<"/">> \o SubSeq(full, 5, 7) \o <<"/">>
        \o SubSeq(full, 8, 10) \o <<"/">> \o SubSeq(full, 11, 13) \o <<"/">>

\* build_ftp_path: ValueError("Cannot parse accession") when the pattern does
\* not match
build_ftp_path(database, full) ==
    IF MatchesShardPattern(full)
    THEN [how |-> "ok", path |-> ShardPath(database, full)]
    ELSE [how |-> "raised", path |-> <<>>]

\* the first n characters of seed repeated
Repeated(seed, n) == [k \in 1..n |-> seed[((k - 1) % Len(seed)) + 1]]

\* the entries that are given: a registry prefix or none or an unknown one, a
\* database code or an unknown one, an identifier of up to MaxIdDigits
\* digits, the separator or none, a version of up to MaxVersionDigits digits,
\* and what may follow; and the entry "XX_12345"
EntryPrefixes == {<<>>, <<"G", "B", "_">>, <<"R", "S", "_">>, <<"X", "X", "_">>}
EntryDatabases == {<<"G", "C", "A", "_">>, <<"G", "C", "F", "_">>, <<"G", "C", "X", "_">>}
EntryIds ==
    {Repeated(seed, n) : n \in 0..MaxIdDigits,
                         seed \in {SubSeq(bare_GCA, 5, 13), SubSeq(asm_GCF, 5, 13)}}
EntrySeparators == {<<>>, <<".">>}
EntryVersions == {Repeated(<<"1", "0">>, n) : n \in 0..MaxVersionDigits}
EntryTails == {<<>>, <<"_", "A">>, <<" ">>}
malformed_entry == <<"X", "X", "_", "1", "2", "3", "4", "5">>
EntryUniverse ==
    {p \o d \o n \o s \o v \o t :
        p \in EntryPrefixes, d \in EntryDatabases, n \in EntryIds,
        s \in EntrySeparators, v \in EntryVersions, t \in EntryTails}
        \cup {malformed_entry}

ResolveInit ==
    /\ EngineOff
    /\ BuilderOff
    /\ OrchestratorOff
    /\ DiscoveryOff
    /\ ParserOff
    /\ SessionOff
    /\ FurtherOff
    /\ entry_str \in EntryUniverse
    /\ parsed = NotParsed
    /\ ftp_path = NoPath
    /\ reparsed = NotParsed
    /\ shard \in {Refused, Listed(<<Line(TRUE, 9, asm_GCA)>>)}
    /\ found = NotFound
    /\ lookups = 0

\* download_genome_files: prefix, database, accession_full =
\* parse_accession(entry); what it raises leaves download_genome_files
ParseEntry ==
    /\ parsed.how = "none"
    /\ parsed' = parse_accession(entry_str)
    /\ UNCHANGED <<engine, builder, orchestrator, discovery, locator, parser,
                   sessionv, further,
                   entry_str, ftp_path, reparsed>>

\* download_genome_files: base_path = build_ftp_path(database, accession_full)
BuildPath ==
    /\ parsed.how = "ok"
    /\ ftp_path.how = "none"
    /\ ftp_path' = build_ftp_path(parsed.database, parsed.accession_full)
    /\ UNCHANGED <<engine, builder, orchestrator, discovery, locator, parser,
                   sessionv, further,
                   entry_str, parsed, reparsed>>

\* download_genome_files: assembly_dir = find_assembly_dir(ftp, base_path,
\* accession_full), which lists base_path
ListShard ==
    /\ ftp_path.how = "ok"
    /\ found.how = "none"
    /\ lookups' = lookups + 1
    /\ found' = find_assembly_dir(shard, parsed.accession_full)
    /\ UNCHANGED <<engine, builder, orchestrator, discovery, resolver, parser,
                   sessionv, further,
                   shard>>

\* parse_accession is given the accession that it returned
ParseCanonical ==
    /\ parsed.how = "ok"
    /\ reparsed.how = "none"
    /\ reparsed' = parse_accession(parsed.accession_full)
    /\ UNCHANGED <<engine, builder, orchestrator, discovery, locator, parser,
                   sessionv, further,
                   entry_str, parsed, ftp_path>>

ResolveNext ==
    \/ ParseEntry
    \/ BuildPath
    \/ ListShard
    \/ ParseCanonical

ResolveSpec == ResolveInit /\ [][ResolveNext]_vars

\* ---- the accession grammar, stated apart from the patterns of the code
\* str is (GCA|GCF)_<digits>.<digits> and nothing else
InBareGrammar(str) ==
    /\ Len(str) >= 7
    /\ SubSeq(str, 1, 4) \in {<<"G", "C", "A", "_">>, <<"G", "C", "F", "_">>}
    /\ \E dot \in 6..(Len(str) - 1) :
          /\ str[dot] = "."
          /\ \A k \in (5..Len(str)) \ {dot} : str[k] \in DigitChars

\* str is (GB|RS)_(GCA|GCF)_<digits>.<digits> and nothing else
InPrefixedGrammar(str) ==
    /\ Len(str) >= 10
    /\ SubSeq(str, 1, 3) \in {<<"G", "B", "_">>, <<"R", "S", "_">>}
    /\ InBareGrammar(SubSeq(str, 4, Len(str)))

InGrammar(str) == InBareGrammar(str) \/ InPrefixedGrammar(str)

\* the canonical accession of an entry of the grammar: the entry without its
\* registry prefix
Canonical(str) == IF InPrefixedGrammar(str) THEN SubSeq(str, 4, Len(str)) ELSE str

\* the registry prefix of an entry of the grammar
RegistryPrefix(str) ==
    IF ~InPrefixedGrammar(str) THEN "None"
    ELSE IF str[1] = "G" THEN "GB" ELSE "RS"

\* the digits of an accession before its version separator, and those after
NumericId(full) == SubSeq(full, 5, RunEnd(full, 5, DigitChars))
Version(full) ==
    LET sep == RunEnd(full, 5, DigitChars) + 1 IN
    IF sep <= Len(full) /\ full[sep] = "."
    THEN SubSeq(full, sep + 1, RunEnd(full, sep + 1, DigitChars))
    ELSE <<>>

\* C21: of an entry of either grammar, parse_accession returns the registry
\* prefix (None for the bare grammar), the database code and the canonical
\* accession, and parse_accession of that canonical accession returns the
\* same database, numeric id and version.
C21_RoundTrip ==
    (InGrammar(entry_str) /\ parsed.how # "none") =>
        /\ parsed = Parsed(RegistryPrefix(entry_str),
                           SubSeq(Canonical(entry_str), 1, 3),
                           Canonical(entry_str))
        /\ reparsed.how # "none" =>
              /\ reparsed.how = "ok"
              /\ reparsed.database = parsed.database
              /\ NumericId(reparsed.accession_full) = NumericId(Canonical(entry_str))
              /\ Version(reparsed.accession_full) = Version(Canonical(entry_str))

\* the canonical accession of a prefixed entry of nine digits and a version
\* of two has been parsed again
C21_Witness ==
    /\ InPrefixedGrammar(entry_str)
    /\ Len(NumericId(Canonical(entry_str))) = 9
    /\ Len(Version(Canonical(entry_str))) = 2
    /\ parsed.prefix = "RS"
    /\ reparsed.how = "ok"
    /\ reparsed.prefix = "None"

\* C22: of a valid accession whose numeric id has nine digits, build_ftp_path
\* returns /genomes/all/{database}/{g1}/{g2}/{g3}/ where g1, g2 and g3 are
\* three digits each and g1 g2 g3 in a row is the numeric id.
C22_ShardPath ==
    (/\ parsed.how = "ok"
     /\ InBareGrammar(parsed.accession_full)
     /\ Len(NumericId(parsed.accession_full)) = 9
     /\ ftp_path.how # "none") =>
        /\ ftp_path.how = "ok"
        /\ Len(ftp_path.path) = 29
        /\ LET path == ftp_path.path
               g1 == SubSeq(path, 18, 20)
               g2 == SubSeq(path, 22, 24)
               g3 == SubSeq(path, 26, 28)
           IN /\ SubSeq(path, 1, 13) = genomes_all
              /\ SubSeq(path, 14, 16) = parsed.database
              /\ path[17] = "/" /\ path[21] = "/" /\ path[25] = "/" /\ path[29] = "/"
              /\ \A k \in 1..3 : g1[k] \in DigitChars /\ g2[k] \in DigitChars
                                                      /\ g3[k] \in DigitChars
              /\ g1 \o g2 \o g3 = NumericId(parsed.accession_full)

\* the path of GCA_000195005.1 has been built: its groups differ
C22_Witness ==
    /\ parsed.accession_full = bare_GCA
    /\ ftp_path.how = "ok"
    /\ SubSeq(ftp_path.path, 18, 28)
           = <<"0", "0", "0", "/", "1", "9", "5", "/", "0", "0", "5">>

\* C23: parse_accession raises on every entry that is of neither grammar.
C23_MalformedFails ==
    (parsed.how # "none" /\ ~InGrammar(entry_str)) => parsed.how = "raised"

\* C24: of an accession whose numeric id, the digits before the version
\* separator, is not nine digits long, build_ftp_path raises: no shard path
\* is produced and no directory of the archive is listed.
C24_UnparseableFails ==
    (parsed.how = "ok" /\ Len(NumericId(parsed.accession_full)) # 9) =>
        /\ ftp_path.how \in {"none", "raised"}
        /\ ftp_path.path = <<>>
        /\ lookups = 0
        /\ found = NotFound

\* build_ftp_path has raised on an accession of ten digits and a version,
\* and on one whose eleven digits have no separator
C24_Witness ==
    /\ ftp_path.how = "raised"
    /\ Len(NumericId(parsed.accession_full)) \in {10, 11}
    /\ Len(parsed.accession_full) >= 15

\* ===================================================== parse_md5checksums
\* the most lines of a manifest
MaxManifestLines == 2

\* paths of a manifest: a target file with and without the leading ./, a
\* hidden file under ./ and a file of the parent directory
hidden_name == <<".", "listing">>
ManifestPaths ==
    {<<".", "/">> \o fna_name, fna_name, <<".", "/">> \o hidden_name,
     <<".", ".", "/">> \o gff_name}

\* lines of a manifest: blank, of one token, of a digest and a path, and of
\* three tokens
ManifestLines ==
    {<<>>, <<0>>, <<1, fna_name, 0>>}
        \cup {<<d, path>> : d \in Digests, path \in ManifestPaths}

ParserInit ==
    /\ EngineOff
    /\ BuilderOff
    /\ OrchestratorOff
    /\ DiscoveryOff
    /\ LocatorOff
    /\ ResolverOff
    /\ SessionOff
    /\ FurtherOff
    /\ md5_content \in SeqsUpTo(ManifestLines, MaxManifestLines)
    /\ parsed_checksums = EmptyDict
    /\ parse_how = "none"

\* md5_checksums = parse_md5checksums('\n'.join(md5_content)): strip, split
\* and lstrip raise on no str
ParseManifest ==
    /\ parse_how = "none"
    /\ parsed_checksums' = parse_md5checksums(md5_content)
    /\ parse_how' = "returned"
    /\ UNCHANGED <<engine, builder, orchestrator, discovery, locator,
                   resolver, sessionv, further,
                   md5_content>>

ParserNext == ParseManifest

ParserSpec == ParserInit /\ [][ParserNext]_vars

\* a path without its leading ./, when it has one
WithoutDotSlash(path) ==
    IF Len(path) >= 2 /\ path[1] = "." /\ path[2] = "/"
    THEN SubSeq(path, 3, Len(path))
    ELSE path

\* the lines of at least two tokens
EntryLines == {k \in 1..Len(md5_content) : Len(md5_content[k]) >= 2}

\* C25: parse_md5checksums returns on every manifest, and what it returns
\* maps the second token of each line of at least two tokens, without its
\* leading ./ and otherwise as it is, to the first token of the last such
\* line; blank lines and lines of fewer tokens add nothing.
C25_OnlyLeadingDotSlash ==
    parse_how # "none" =>
        /\ parse_how = "returned"
        /\ DOMAIN parsed_checksums
               = {WithoutDotSlash(md5_content[k][2]) : k \in EntryLines}
        /\ \A k \in EntryLines :
              (\A j \in EntryLines :
                   j > k => WithoutDotSlash(md5_content[j][2])
                                # WithoutDotSlash(md5_content[k][2]))
                  => parsed_checksums[WithoutDotSlash(md5_content[k][2])]
                         = md5_content[k][1]

\* ---- exit status
\* the process has ended with a status other than 0
NonZeroExit == main_pc = "exited" /\ exit_status # 0

\* what ends the process before the staging directory exists and before any
\* item is processed
SetupErrors == {"input_file_missing", "no_assemblies", "archive_error", "store_missing"}

\* C26 as it is stated: the process ends with a non-zero status only when
\* the bucket or the path prefix is missing in the store.
C26_OnlyStoreErrors == NonZeroExit => exit_cause = "store_missing"

\* C26 amended: the process ends with a non-zero status only on an error of
\* the setup, before the staging directory is created and any item is
\* processed (input file missing, no assembly directory found, archive not
\* reached for the discovery, bucket or path prefix missing), or when it is
\* interrupted from outside; a run that reaches the end of main ends with
\* status 0 whatever items and file transfers have failed.
C26_OnlySetupOrInterrupt ==
    /\ NonZeroExit =>
          \/ exit_cause \in SetupErrors /\ calls = <<>> /\ temp_created = 0
          \/ exit_cause = "interrupted"
    /\ exit_cause = "returned" => (exit_status = 0 /\ summary.logged)

\* main has returned with status 0 after an item and a file transfer failed
C26_Witness ==
    /\ exit_cause = "returned"
    /\ exit_status = 0
    /\ failed # <<>>
    /\ failed_transfers # <<>>
    /\ success_count = 0

\* ---- inter-item delay
\* C29: when download_genome_files is called for an item, time.sleep has
\* been called once after each of the items before it, whether their calls
\* returned or raised.
C29_DelayAfterEveryItem == main_pc = "call" => delays = item_no - 1

\* =================================================== FTP sessions of a run
\* main and download_genome_files as far as they open and close FTP
\* sessions: session_pc is "start", "discover" (the walk under the discovery
\* session), "loop", "call" (download_genome_files before FTP(ftp_host)),
\* "login", "try" (the try block), "except" (the function has raised and the
\* handler of main runs), "done" or "exited"

\* how the call of an item has ended, and whether its connection was open
\* when the function was left
Ended(how) == Append(session_log, how)

SessionInit ==
    /\ EngineOff
    /\ BuilderOff
    /\ OrchestratorOff
    /\ DiscoveryOff
    /\ LocatorOff
    /\ ResolverOff
    /\ ParserOff
    /\ FurtherOff
    /\ session_mode \in {"file", "prefix"}
    /\ todo \in 0..MaxItems
    /\ session_pc = "start"
    /\ sessions = 0
    /\ session_log = <<>>

\* file mode: the accessions are read from the input file
ReadAccessions ==
    /\ session_pc = "start"
    /\ session_mode = "file"
    /\ session_pc' = "loop"
    /\ UNCHANGED <<engine, builder, orchestrator, discovery, locator, resolver,
                   parser, further, session_mode, todo, sessions, session_log>>

\* prefix mode: ftp = FTP(args.ftp_host); ftp.login()
OpenDiscovery ==
    /\ session_pc = "start"
    /\ session_mode = "prefix"
    /\ sessions' = sessions + 1
    /\ session_pc' = "discover"
    /\ UNCHANGED <<engine, builder, orchestrator, discovery, locator, resolver,
                   parser, further, session_mode, todo, session_log>>

\* prefix mode: FTP(args.ftp_host) raises, nothing catches it and the
\* process ends
DiscoveryRefused ==
    /\ session_pc = "start"
    /\ session_mode = "prefix"
    /\ session_pc' = "exited"
    /\ UNCHANGED <<engine, builder, orchestrator, discovery, locator, resolver,
                   parser, further, session_mode, todo, sessions, session_log>>

\* the walk returns or raises: finally: ftp.quit(); the process ends when
\* the walk raised or found nothing, otherwise the loop is entered
CloseDiscovery ==
    /\ session_pc = "discover"
    /\ sessions' = sessions - 1
    /\ \E raised \in BOOLEAN :
          session_pc' = IF raised \/ todo = 0 THEN "exited" ELSE "loop"
    /\ UNCHANGED <<engine, builder, orchestrator, discovery, locator, resolver,
                   parser, further, session_mode, todo, session_log>>

\* for i, entry in enumerate(items_to_process, 1): download_genome_files is
\* called
TakeItem ==
    /\ session_pc = "loop"
    /\ todo > 0
    /\ todo' = todo - 1
    /\ session_pc' = "call"
    /\ UNCHANGED <<engine, builder, orchestrator, discovery, locator, resolver,
                   parser, further, session_mode, sessions, session_log>>

\* parse_accession, or the pattern of the assembly path, raises ValueError
\* before FTP(ftp_host)
EntryInvalid ==
    /\ session_pc = "call"
    /\ session_log' = Ended("invalid")
    /\ session_pc' = "except"
    /\ UNCHANGED <<engine, builder, orchestrator, discovery, locator, resolver,
                   parser, further, session_mode, todo, sessions>>

\* ftp = FTP(ftp_host): the control connection is open
Connect ==
    /\ session_pc = "call"
    /\ sessions' = sessions + 1
    /\ session_pc' = "login"
    /\ UNCHANGED <<engine, builder, orchestrator, discovery, locator, resolver,
                   parser, further, session_mode, todo, session_log>>

\* FTP(ftp_host) raises: there is no connection
ConnectRaises ==
    /\ session_pc = "call"
    /\ session_log' = Ended("refused")
    /\ session_pc' = "except"
    /\ UNCHANGED <<engine, builder, orchestrator, discovery, locator, resolver,
                   parser, further, session_mode, todo, sessions>>

\* ftp.login() returns and the try block is entered
Login ==
    /\ session_pc = "login"
    /\ session_pc' = "try"
    /\ UNCHANGED <<engine, builder, orchestrator, discovery, locator, resolver,
                   parser, further, session_mode, todo, sessions, session_log>>

\* ftp.login() raises: it stands before try, so that finally: ftp.quit() is
\* not run and the function is left with its connection open
LoginRaises ==
    /\ session_pc = "login"
    /\ session_log' = Ended("login_failed")
    /\ session_pc' = "except"
    /\ UNCHANGED <<engine, builder, orchestrator, discovery, locator, resolver,
                   parser, further, session_mode, todo, sessions>>

\* the try block returns: finally: ftp.quit(), then main counts the item
TryReturns ==
    /\ session_pc = "try"
    /\ sessions' = sessions - 1
    /\ session_log' = Ended("returned")
    /\ session_pc' = "loop"
    /\ UNCHANGED <<engine, builder, orchestrator, discovery, locator, resolver,
                   parser, further, session_mode, todo>>

\* the try block raises: except Exception: raise, finally: ftp.quit()
TryRaises ==
    /\ session_pc = "try"
    /\ sessions' = sessions - 1
    /\ session_log' = Ended("raised")
    /\ session_pc' = "except"
    /\ UNCHANGED <<engine, builder, orchestrator, discovery, locator, resolver,
                   parser, further, session_mode, todo>>

\* except Exception as e of main ends: e and its traceback are released, and
\* with them the frame of download_genome_files; an FTP object that was
\* never quit is reclaimed there and its socket closed (reference counting)
HandlerEnds ==
    /\ session_pc = "except"
    /\ sessions' = IF session_log[Len(session_log)] = "login_failed"
                   THEN sessions - 1 ELSE sessions
    /\ session_pc' = "loop"
    /\ UNCHANGED <<engine, builder, orchestrator, discovery, locator, resolver,
                   parser, further, session_mode, todo, session_log>>

\* the loop is over
LoopEnds ==
    /\ session_pc = "loop"
    /\ todo = 0
    /\ session_pc' = "done"
    /\ UNCHANGED <<engine, builder, orchestrator, discovery, locator, resolver,
                   parser, further, session_mode, todo, sessions, session_log>>

SessionNext ==
    \/ ReadAccessions
    \/ OpenDiscovery
    \/ DiscoveryRefused
    \/ CloseDiscovery
    \/ TakeItem
    \/ EntryInvalid
    \/ Connect
    \/ ConnectRaises
    \/ Login
    \/ LoginRaises
    \/ TryReturns
    \/ TryRaises
    \/ HandlerEnds
    \/ LoopEnds

SessionSpec == SessionInit /\ [][SessionNext]_vars

\* C27: at most one FTP session is open at any time; none is open when an
\* item is taken, the discovery session being closed before; and none is
\* open once download_genome_files has returned or raised.
C27_OneSessionAtATime ==
    /\ sessions <= 1
    /\ session_pc \in {"loop", "call", "except", "done"} => sessions = 0

\* ------------------------------------------- no md5checksums.txt listed
\* C28: when the assembly directory lists no md5checksums.txt, the function
\* does not fail over it, the ledger is empty, no md5checksums.txt object is
\* written, and every target file that has been processed is
\* skipped_unverifiable if its key existed and uploaded_unverifiable
\* otherwise; when it is listed, it has been fetched and parsed before a
\* target file is processed.
C28_NoLedger ==
    /\ (run >= 1 /\ md5_name \notin Range(ftp_files)) =>
          /\ pc \notin {"locate", "ledger"} => md5_checksums = EmptyDict
          /\ error.at # "ledger"
          /\ upload_count[md5_name] = 0
          /\ Unchanged(md5_name)
          /\ \A f \in TargetsListed :
                outcome[f] # "pending" =>
                    outcome[f] = IF f \in DOMAIN store0
                                 THEN "skipped_unverifiable"
                                 ELSE "uploaded_unverifiable"
    /\ (run >= 1 /\ md5_name \in Range(ftp_files)) =>
          \A f \in TargetsListed :
              (outcome[f] # "pending" \/ fetch_count[f] > 0) =>
                  /\ md5_checksums = parse_md5checksums(ftp_md5_content)
                  /\ upload_count[md5_name] = 1

\* =============================================== build_accession_path, keys
\* minio_path_prefix = "tenant-general-warehouse/kbase/datasets/ncbi/"
minio_path_prefix ==
    <<"t", "e", "n", "a", "n", "t", "-", "g", "e", "n", "e", "r", "a", "l",
      "-", "w", "a", "r", "e", "h", "o", "u", "s", "e", "/", "k", "b", "a",
      "s", "e", "/", "d", "a", "t", "a", "s", "e", "t", "s", "/", "n", "c",
      "b", "i", "/">>

raw_data == <<"r", "a", "w", "_", "d", "a", "t", "a", "/">>

\* the name of the assembly directory, character by character
assembly_dir_chars ==
    <<"G", "C", "A", "_", "0", "0", "0", "1", "9", "5", "0", "0", "5", ".",
      "1", "_", "A", "S", "M", "1", "9", "5", "0", "0", "v", "1">>

\* re.match(r'GC[AF]_(\d{3})(\d{3})(\d{3})\.\d+.*', assembly_dir)
MatchesAccessionPath(dir) ==
    /\ Len(dir) >= 15
    /\ DatabaseAt(dir, 1)
    /\ AllDigits(dir, 5, 13)
    /\ dir[14] = "."
    /\ dir[15] \in DigitChars

\* variant: the path ends with the third group
build_accession_path_NoDirectory(dir) ==
    IF MatchesAccessionPath(dir)
    THEN [how |-> "ok",
          path |-> raw_data \o SubSeq(dir, 1, 3) \o <<"/">> \o SubSeq(dir, 5, 7)
                       \o <<"/">> \o SubSeq(dir, 8, 10) \o <<"/">>
                       \o SubSeq(dir, 11, 13) \o <<"/">>]
    ELSE [how |-> "raised", path |-> <<>>]

\* build_accession_path:
\* f"raw_data/{assembly_dir[0:3]}/{part1}/{part2}/{part3}/{assembly_dir}/",
\* ValueError("Cannot parse accession") when the pattern does not match
build_accession_path(dir) ==
    IF MatchesAccessionPath(dir)
    THEN [how |-> "ok",
          path |-> raw_data \o SubSeq(dir, 1, 3) \o <<"/">> \o SubSeq(dir, 5, 7)
                       \o <<"/">> \o SubSeq(dir, 8, 10) \o <<"/">>
                       \o SubSeq(dir, 11, 13) \o <<"/">> \o dir \o <<"/">>]
    ELSE [how |-> "raised", path |-> <<>>]

\* s3_path = minio_path_prefix + build_accession_path(assembly_dir)
s3_path == minio_path_prefix \o build_accession_path(assembly_dir_chars).path

\* s3_path + filename, the key that upload_file and list_objects are given
object_name(fname) == s3_path \o fname

\* the keys that the invocation has written
WrittenKeys == {object_name(k) : k \in {x \in AllKeys : upload_count[x] > 0}}

\* minio_path_prefix + 'raw_data/{DB}/{g1}/{g2}/{g3}/{assembly_dir}/' of a
\* directory name: DB its first three characters, g1 g2 g3 its numeric id
KeyPrefix(dir) ==
    LET id == NumericId(dir) IN
    minio_path_prefix \o raw_data \o <<dir[1], dir[2], dir[3]>> \o <<"/">>
        \o <<id[1], id[2], id[3]>> \o <<"/">> \o <<id[4], id[5], id[6]>> \o <<"/">>
        \o <<id[7], id[8], id[9]>> \o <<"/">> \o dir \o <<"/">>

Outcomes ==
    {"skipped_verified", "skipped_unverifiable", "uploaded_verified",
     "uploaded_unverifiable", "failed"}

\* the resources of f in the datapackage.json that the invocation wrote
ManifestResourcesOf(f) ==
    IF upload_count[datapackage_name] = 0 THEN {}
    ELSE {i \in 1..Len(store[datapackage_name].resources) :
              store[datapackage_name].resources[i].name = f}

\* C32: when download_genome_files has returned, each target file has one
\* of the five outcomes, and the lists agree with it: at most one entry in
\* failed_transfers, there exactly for the outcome failed; at most one entry
\* in no_checksum_files, there exactly for the unverifiable outcomes; at
\* most one resource, in downloaded_resources and in the manifest, there
\* exactly for the uploaded outcomes; never a failed entry and a resource.
C32_OneOutcomePerFile ==
    Returned =>
        \A f \in TargetsListed :
            /\ outcome[f] \in Outcomes
            /\ Cardinality(FailedEntries(f)) <= 1
            /\ Cardinality(NoChecksumEntries(f)) <= 1
            /\ Cardinality(ResourcesOf(f)) <= 1
            /\ Cardinality(ManifestResourcesOf(f)) <= 1
            /\ FailedEntries(f) # {} <=> outcome[f] = "failed"
            /\ NoChecksumEntries(f) # {} <=>
                   outcome[f] \in {"skipped_unverifiable", "uploaded_unverifiable"}
            /\ ResourcesOf(f) # {} <=> Uploaded(f)
            /\ ManifestResourcesOf(f) # {} <=> Uploaded(f)
            /\ ~(FailedEntries(f) # {} /\ ResourcesOf(f) # {})
            /\ ~(FailedEntries(f) # {} /\ ManifestResourcesOf(f) # {})

\* the invocation has returned with one file failed and the other uploaded
\* and in the manifest
C32_Witness ==
    /\ Returned
    /\ TargetsListed = TargetUniverse
    /\ outcome[fna_name] = "failed"
    /\ Cardinality(FailedEntries(fna_name)) = 1
    /\ outcome[gff_name] \in {"uploaded_verified", "uploaded_unverifiable"}
    /\ Cardinality(ManifestResourcesOf(gff_name)) = 1

\* --------------------------------------------- the exact destination key
\* C34: a target file is skipped only if an object with exactly its
\* destination key was in the store, and the object that is downloaded for
\* verification is the one at exactly that key: objects whose keys only
\* start with the key never make the file skipped or verified.
C34_ExactKeyOnly ==
    /\ \A f \in TargetsListed :
          outcome[f] \in {"skipped_verified", "skipped_unverifiable"} =>
              f \in DOMAIN store0
    /\ pc = "verify" => filename \in DOMAIN store

\* ------------------------------------------------ a failed file's object
\* C38: a target file that has exhausted its attempts, and so ends as
\* failed, has the store at its destination key as it was when the
\* invocation began: the same object if there was one, none otherwise.
C38_FailedLeavesStore ==
    \A f \in TargetsListed :
        (outcome[f] = "failed" \/ mismatch_count[f] >= MaxAttempts) =>
            /\ outcome[f] = "failed"
            /\ Unchanged(f)
            /\ upload_count[f] = 0

\* a stale object failed its verification, the three fetches mismatched,
\* and the stale object is still there; and a file without an object failed
C38_Witness ==
    /\ Returned
    /\ outcome[fna_name] = "failed"
    /\ fna_name \in DOMAIN store0
    /\ compute_md5(store0[fna_name]) # Published(fna_name)
    /\ store[fna_name] = store0[fna_name]
    /\ outcome[gff_name] = "failed"
    /\ gff_name \notin DOMAIN store

\* -------------------------------------------------- fetches and uploads
\* C39: within one invocation a target file is fetched at most 3 times and
\* uploaded at most once; a fetch of a file is issued only when fewer than 3
\* fetches of it were made and it was not uploaded, and an upload only when
\* it was not uploaded.
C39_AtMostThreeFetches ==
    [][\A f \in TargetUniverse :
          /\ fetch_count'[f] <= MaxAttempts
          /\ upload_count'[f] <= 1
          /\ fetch_count'[f] > fetch_count[f] =>
                (fetch_count[f] < MaxAttempts /\ upload_count[f] = 0)
          /\ upload_count'[f] > upload_count[f] => upload_count[f] = 0]_vars

\* a file was fetched three times and the third fetch was uploaded
C39_Witness ==
    /\ fetch_count[fna_name] = MaxAttempts
    /\ upload_count[fna_name] = 1
    /\ mismatch_count[fna_name] = MaxAttempts - 1
    /\ outcome[fna_name] = "uploaded_verified"

\* ------------------------------------------------ the manifest over runs
\* the names of the resources of a manifest
ResourceNames(manifest) ==
    {manifest.resources[i].name : i \in 1..Len(manifest.resources)}

\* C37: when an invocation has returned and a manifest of an earlier
\* invocation was in the store, every file of that manifest, still present
\* in the store, has a resource in the manifest that is now in the store.
C37_ManifestKeepsFiles ==
    (Returned /\ datapackage_name \in DOMAIN store0) =>
        \A f \in ResourceNames(store0[datapackage_name]) :
            f \in DOMAIN store => f \in ResourceNames(store[datapackage_name])

\* ------------------------------------------------ the canonical accession
\* an entry without the whitespace around it and without its registry prefix
WithoutPrefix(str) ==
    LET e == Strip(str) IN
    IF Len(e) >= 3 /\ SubSeq(e, 1, 3) \in {<<"G", "B", "_">>, <<"R", "S", "_">>}
    THEN SubSeq(e, 4, Len(e))
    ELSE e

\* C33: every accession that parse_accession returns is
\* {database}_{numeric_id}.{version} with database GCA or GCF, a numeric id
\* of digits and a version that is a positive integer, and it is the entry
\* without its registry prefix and the whitespace around it.
C33_CanonicalForm ==
    parsed.how = "ok" =>
        /\ InBareGrammar(parsed.accession_full)
        /\ parsed.database = SubSeq(parsed.accession_full, 1, 3)
        /\ \E k \in 1..Len(Version(parsed.accession_full)) :
              Version(parsed.accession_full)[k] # "0"
        /\ parsed.accession_full = WithoutPrefix(entry_str)

\* ------------------------------------------- the version of the directory
\* C35: the directory that find_assembly_dir returns is one of exactly the
\* accession asked for: its name is the accession, then '_', then a suffix;
\* the directory of a version that only starts with the asked version (.10
\* for .1) is not returned.
C35_ExactVersion ==
    found.how = "returned" =>
        /\ Len(found.name) > Len(accession_chars) + 1
        /\ StartsWith(found.name, accession_chars \o <<"_">>)

\* =========================================================================
\* MinioClient: upload_file and list_objects on one bucket
\* =========================================================================

\* the greatest length of an object key
MaxKeyLen == 2

\* the greatest number of keys in one response of list_objects_v2 (the
\* service's MaxKeys default, 1000, scaled to the keys of the model)
MaxKeys == 3

\* the characters of the keys, in the order of their bytes
KeyChars == <<"a", "b">>

\* the keys an object can have
KeyUniverse ==
    UNION {[1..n -> Range(KeyChars)] : n \in 1..MaxKeyLen}

\* the prefixes list_objects can be called with; '' is the default
PrefixUniverse ==
    UNION {[1..n -> Range(KeyChars)] : n \in 0..MaxKeyLen}

CharRank(c) == CHOOSE i \in 1..Len(KeyChars) : KeyChars[i] = c

\* the listing order of the service: keys by their bytes
RECURSIVE KeyLess(_, _)
KeyLess(a, b) ==
    IF a = <<>> THEN b # <<>>
    ELSE IF b = <<>> THEN FALSE
    ELSE IF Head(a) # Head(b) THEN CharRank(Head(a)) < CharRank(Head(b))
    ELSE KeyLess(Tail(a), Tail(b))

RECURSIVE InListingOrder(_)
InListingOrder(keys) ==
    IF keys = {} THEN <<>>
    ELSE LET first == CHOOSE k \in keys : \A o \in keys \ {k} : KeyLess(k, o)
         IN  <<first>> \o InListingOrder(keys \ {first})

\* s3.list_objects_v2(Bucket=bucket_name, Prefix=prefix): the Contents of
\* the one response, which holds at most MaxKeys of the matching keys
list_objects_v2(keys, prefix) ==
    LET matching == InListingOrder({k \in keys : StartsWith(k, prefix)})
    IN  SubSeq(matching, 1, IF Len(matching) < MaxKeys
                            THEN Len(matching) ELSE MaxKeys)

ClientInit ==
    /\ EngineOff
    /\ BuilderOff
    /\ OrchestratorOff
    /\ DiscoveryOff
    /\ LocatorOff
    /\ ResolverOff
    /\ ParserOff
    /\ SessionOff
    /\ LoaderOff
    /\ HandoverOff
    /\ bucket_keys \in SUBSET KeyUniverse
    /\ uploaded = {}
    /\ listing = NotListed

\* upload_file(bucket_name, object_name, file_path) returns
UploadFile ==
    /\ \E object_key \in KeyUniverse :
          /\ bucket_keys' = bucket_keys \cup {object_key}
          /\ uploaded' = uploaded \cup {object_key}
    /\ UNCHANGED <<engine, builder, orchestrator, discovery, locator,
                   resolver, parser, sessionv, loaderv, handover,
                   listing>>

\* upload_file raises: the transfer failed and no object was stored
UploadFileRaises ==
    /\ listing' = [NotListed EXCEPT !.how = "upload_raised"]
    /\ UNCHANGED <<engine, builder, orchestrator, discovery, locator,
                   resolver, parser, sessionv, loaderv, handover,
                   bucket_keys, uploaded>>

\* list_objects(bucket_name, prefix) returns the keys of the response
ListObjects ==
    /\ \E prefix \in PrefixUniverse :
          listing' = [how |-> "returned", prefix |-> prefix,
                      keys |-> list_objects_v2(bucket_keys, prefix)]
    /\ UNCHANGED <<engine, builder, orchestrator, discovery, locator,
                   resolver, parser, sessionv, loaderv, handover,
                   bucket_keys, uploaded>>

ClientNext ==
    \/ UploadFile
    \/ UploadFileRaises
    \/ ListObjects

ClientSpec == ClientInit /\ [][ClientNext]_vars

\* C31: once upload_file has stored a key, list_objects returns that key
\* for the empty prefix and for every prefix of the key, whatever else the
\* bucket holds.
C31_UploadedIsListed ==
    [][listing' # listing /\ listing'.how = "returned" =>
          \A k \in uploaded :
              StartsWith(k, listing'.prefix) => k \in Range(listing'.keys)]_vars

\* =========================================================================
\* nayfach_2020: load_metagenomes and load_mags
\* =========================================================================

\* the greatest number of rows of a sheet
MaxRows == 2

\* the greatest value of --limit
MaxLimit == 2

\* a row of the sheet: its taxon cell (a number, an empty cell, or text that
\* is not a number) and, on sheet S2, its genome_id cell
Rows == [taxon : {"1", "2", "nan", "text"}, genome : {"g1", "g2"}]

\* limit: None, or the int that was passed (argparse type=int)
Limits ==
    {[given |-> FALSE, n |-> 0]} \cup
    {[given |-> TRUE, n |-> n] : n \in -1..MaxLimit}

\* df.head(n): the first n rows; for a negative n, all rows but the last -n
head(rows, n) ==
    IF n >= 0
    THEN SubSeq(rows, 1, IF n < Len(rows) THEN n ELSE Len(rows))
    ELSE SubSeq(rows, 1, IF Len(rows) + n > 0 THEN Len(rows) + n ELSE 0)

\* str(int(row[column])) if pd.notna(row[column]) else None; None as well
\* when the sheet has no such column
img_taxon_id(row) ==
    IF ~loader.taxon_column \/ row.taxon = "nan" THEN "None" ELSE row.taxon

\* int() of a cell that is not a number raises ValueError
ConversionRaises(row) == loader.taxon_column /\ row.taxon = "text"

\* f"{METAGENOMES_PATH}/{img_taxon_id}/metagenome.json" and
\* f"{MAGS_PATH}/{genome_id}/mag.json"
object_path(row) ==
    IF loader.name = "load_metagenomes"
    THEN [dir |-> "metagenomes", id |-> img_taxon_id(row),
          file |-> "metagenome.json"]
    ELSE [dir |-> "mags", id |-> row.genome, file |-> "mag.json"]

resources_path(row) == [object_path(row) EXCEPT !.file = "resources.json"]

\* if dts_client and orcid and img_taxon_id
QueriesDts(row) == loader.dts /\ img_taxon_id(row) # "None"

\* the put_json_object calls of one iteration of the loop
RowPuts(row) ==
    IF loader.dry_run THEN <<>>
    ELSE <<object_path(row)>> \o
         (IF QueriesDts(row) THEN <<resources_path(row)>> ELSE <<>>)

LoaderInit ==
    /\ EngineOff
    /\ BuilderOff
    /\ OrchestratorOff
    /\ DiscoveryOff
    /\ LocatorOff
    /\ ResolverOff
    /\ ParserOff
    /\ SessionOff
    /\ ClientOff
    /\ HandoverOff
    /\ loader \in [name : {"load_metagenomes", "load_mags"},
                   dry_run : BOOLEAN, limit : Limits, dts : BOOLEAN,
                   taxon_column : BOOLEAN]
    /\ sheet \in SeqsUpTo(Rows, MaxRows)
    /\ df = <<>>
    /\ row_no = 0
    /\ load_pc = "start"
    /\ puts = <<>>

\* df = pd.read_excel(...); if limit is not None: df = df.head(limit)
ReadSheet ==
    /\ load_pc = "start"
    /\ df' = IF loader.limit.given THEN head(sheet, loader.limit.n) ELSE sheet
    /\ load_pc' = "loop"
    /\ UNCHANGED <<engine, builder, orchestrator, discovery, locator,
                   resolver, parser, sessionv, clientv, handover, loader, sheet,
                   row_no, puts>>

\* one iteration of the loop over df.iterrows() in which nothing raises; a
\* failed DTS query is caught and counts as no resources
ProcessRow ==
    /\ load_pc = "loop"
    /\ row_no < Len(df)
    /\ ~ConversionRaises(df[row_no + 1])
    /\ puts' = puts \o RowPuts(df[row_no + 1])
    /\ row_no' = row_no + 1
    /\ UNCHANGED <<engine, builder, orchestrator, discovery, locator,
                   resolver, parser, sessionv, clientv, handover, loader,
                   sheet, df,
                   load_pc>>

\* an iteration raises: the taxon cell is not a number, or put_json_object
\* raises for the record or for resources.json
RowRaises ==
    /\ load_pc = "loop"
    /\ row_no < Len(df)
    /\ LET row == df[row_no + 1] IN
       \/ /\ ConversionRaises(row)
          /\ puts' = puts
       \/ /\ ~ConversionRaises(row)
          /\ ~loader.dry_run
          /\ puts' = puts
       \/ /\ ~ConversionRaises(row)
          /\ ~loader.dry_run
          /\ QueriesDts(row)
          /\ puts' = Append(puts, object_path(row))
    /\ load_pc' = "raised"
    /\ UNCHANGED <<engine, builder, orchestrator, discovery, locator,
                   resolver, parser, sessionv, clientv, handover, loader,
                   sheet, df,
                   row_no>>

\* the loop has ended and the function returns
LoadReturns ==
    /\ load_pc = "loop"
    /\ row_no = Len(df)
    /\ load_pc' = "returned"
    /\ UNCHANGED <<engine, builder, orchestrator, discovery, locator,
                   resolver, parser, sessionv, clientv, handover, loader,
                   sheet, df,
                   row_no, puts>>

LoaderNext ==
    \/ ReadSheet
    \/ ProcessRow
    \/ RowRaises
    \/ LoadReturns

LoaderSpec == LoaderInit /\ [][LoaderNext]_vars

\* the put_json_object calls that wrote a record
RecordPuts ==
    {i \in DOMAIN puts : puts[i].file \in {"metagenome.json", "mag.json"}}

\* C40: with dry_run the loaders call put_json_object neither for a record
\* nor for resources.json, whatever the sheet, the limit and the DTS
\* configuration; without dry_run they write one record per processed row,
\* and at most `limit` rows are processed when a limit is given (none when
\* the limit is not positive).
C40_DryRunAndLimit ==
    /\ loader.dry_run => puts = <<>>
    /\ (~loader.dry_run /\ load_pc \in {"loop", "returned"}) =>
           Cardinality(RecordPuts) = row_no
    /\ loader.limit.given =>
           row_no <= (IF loader.limit.n > 0 THEN loader.limit.n ELSE 0)

\* =========================================================================
\* main hands the paths of the discovery to download_genome_files
\* =========================================================================

\* the greatest number of directories between the root of the walk and an
\* assembly directory
MaxLevels == 3

\* an assembly directory whose name ends after the '_' that follows the
\* version
asm_no_suffix == <<"G", "C", "F", "_", "0", "0", "0", "0", "0", "1", "2", "1", "5", ".", "2", "_">>

\* a directory inside the assembly directory asm_GCF that carries its name
\* (the archive's {assembly}_assembly_structure)
asm_structure == asm_GCF \o <<"_", "s">>

\* ftp_path = f"/genomes/all/{prefix}/" for --prefix GCF, GCF/000/000 and
\* GCF/000/000/000/GCF_000001215.2_R
WalkRoots ==
    {prefix_path,
     ChildPath(ChildPath(prefix_path, shard_000), shard_000),
     ChildPath(ChildPath(ChildPath(ChildPath(prefix_path, shard_000),
                                   shard_000), shard_000), asm_GCF)}

\* names of directories that traverse_directory records, and of directories
\* it enters
RecordedNames ==
    {n \in {asm_GCF, asm_GCA, asm_no_suffix, asm_structure} :
        LineBranch(Line(TRUE, 9, n)) = "record"}

EnteredNames ==
    {n \in {shard_000, bare_GCA} : LineBranch(Line(TRUE, 9, n)) = "recurse"}

RECURSIVE Below(_, _)
\* path, then the directories of names, one inside the other
Below(path, names) ==
    IF names = <<>> THEN path
    ELSE Below(ChildPath(path, Head(names)), Tail(names))

\* the paths traverse_directory(root) can append to assembly_dirs: a recorded
\* directory inside directories it entered
Discoverable(root) ==
    {ChildPath(Below(root, names), n) :
        names \in SeqsUpTo(EnteredNames, MaxLevels), n \in RecordedNames}

\* positions of the '/' characters of a path
Slashes(path) == {k \in 1..Len(path) : path[k] = "/"}

\* \d{3}/ at position from
ShardLevelAt(path, from) ==
    /\ Len(path) >= from + 3
    /\ AllDigits(path, from, from + 2)
    /\ path[from + 3] = "/"

\* the pattern of download_genome_files matches with its first character at
\* position i: /(GC[AF])/\d{3}/\d{3}/\d{3}/((GC[AF]_\d{9}\.\d+)_[^/]+)/
PathPatternAt(path, i) ==
    LET d == i + 17 IN
    /\ Len(path) >= d + 14
    /\ path[i] = "/"
    /\ path[i + 1] = "G"
    /\ path[i + 2] = "C"
    /\ path[i + 3] \in {"A", "F"}
    /\ path[i + 4] = "/"
    /\ ShardLevelAt(path, i + 5)
    /\ ShardLevelAt(path, i + 9)
    /\ ShardLevelAt(path, i + 13)
    /\ DatabaseAt(path, d)
    /\ AllDigits(path, d + 4, d + 12)
    /\ path[d + 13] = "."
    /\ LET v == RunEnd(path, d + 14, DigitChars) IN
       /\ v >= d + 14
       /\ Len(path) >= v + 3
       /\ path[v + 1] = "_"
       /\ path[v + 2] # "/"
       /\ \E e \in Slashes(path) : e > v + 2

\* assembly_path.rsplit('/', 2)[0] + '/'
RSplitBase(path) ==
    LET at == Slashes(path) IN
    IF Cardinality(at) < 2 THEN <<"/">>
    ELSE LET last == CHOOSE k \in at : \A o \in at : o <= k
             cut == CHOOSE k \in at \ {last} : \A o \in at \ {last} : o <= k
         IN  SubSeq(path, 1, cut)

\* lines 314-324: re.search takes the leftmost match; group(1) is the
\* database, group(2) the directory, group(3) the accession
ParseAssemblyPath(path) ==
    IF \E i \in 1..Len(path) : PathPatternAt(path, i)
    THEN LET i == CHOOSE i \in 1..Len(path) :
                      /\ PathPatternAt(path, i)
                      /\ \A j \in 1..(i - 1) : ~PathPatternAt(path, j)
             d == i + 17
             v == RunEnd(path, d + 14, DigitChars)
             e == CHOOSE e \in Slashes(path) :
                      e > d /\ \A o \in Slashes(path) : o > d => e <= o
         IN  [how |-> "matched", database |-> SubSeq(path, i + 1, i + 3),
              assembly_dir |-> SubSeq(path, d, e - 1),
              accession_full |-> SubSeq(path, d, v),
              base_path |-> RSplitBase(path)]
    ELSE [NoMatch EXCEPT !.how = "ValueError"]

HandoverInit ==
    /\ EngineOff
    /\ BuilderOff
    /\ OrchestratorOff
    /\ DiscoveryOff
    /\ LocatorOff
    /\ ResolverOff
    /\ ParserOff
    /\ SessionOff
    /\ ClientOff
    /\ LoaderOff
    /\ walk_root \in WalkRoots
    /\ found_path = <<>>
    /\ path_match = NoMatch

\* find_assembly_directories_in_prefix(ftp, ftp_path) has returned, and the
\* loop of main takes one of the paths
TakePath ==
    /\ found_path = <<>>
    /\ found_path' \in Discoverable(walk_root)
    /\ UNCHANGED <<engine, builder, orchestrator, discovery, locator,
                   resolver, parser, sessionv, clientv, loaderv, walk_root,
                   path_match>>

\* download_genome_files(entry, ..., assembly_path=entry), lines 314-324
ParsePath ==
    /\ found_path # <<>>
    /\ path_match.how = "none"
    /\ path_match' = ParseAssemblyPath(found_path)
    /\ UNCHANGED <<engine, builder, orchestrator, discovery, locator,
                   resolver, parser, sessionv, clientv, loaderv, walk_root,
                   found_path>>

HandoverNext ==
    \/ TakePath
    \/ ParsePath

HandoverSpec == HandoverInit /\ [][HandoverNext]_vars

\* C36: every path the discovery returns is accepted by the path parser of
\* download_genome_files: it raises nothing, and base_path, the assembly
\* directory and '/' make up the discovered path again.
C36_DiscoveredIsAccepted ==
    path_match.how # "none" =>
        /\ path_match.how = "matched"
        /\ path_match.base_path \o path_match.assembly_dir \o <<"/">> =
               found_path

====
